---- MODULE Spec2Model ----
(***************************************************************************)
(* Node-graph editor: the connection validator, the node registry, the     *)
(* flow store and the flow import.  Two revisions of the view/store pair   *)
(* live in the repository; the variable rev says which one runs:           *)
(*   "legacy"  : options store with addNode/addEdge/removeNode, the view   *)
(*               whose onConnect validates at commit, the validator that   *)
(*               reads NODE_IO_CONFIG;                                     *)
(*   "current" : setup store (nodes, edges, error only), the view whose    *)
(*               isValidConnection gates the drag and whose onConnect      *)
(*               commits, the validator that reads the registry.           *)
(* A nullable JavaScript reference is a sequence: <<>> is null/undefined,  *)
(* <<x>> is the object x.  A handle id is the sequence of its '-' separated*)
(* segments (<<"output", "0">> is "output-0"); <<>> is an absent handle.   *)
(* vcall, icall and rcall hold the arguments and the outcome of the last   *)
(* direct call of the validator, of the flow-io functions and of the       *)
(* registry; a thrown exception is the field threw of the outcome.  pcall   *)
(* is the last call of getEdgePortType.                                    *)
(* The composables of the canvas keep their own state next to the store:   *)
(* the dragged menu item and the pending click timers, the copied node,    *)
(* the file reads in flight and the timers that clear the store's error,   *)
(* handleGroup suspended in nextTick, the generator components and one     *)
(* call of the prediction service.  Each part has its own specification.   *)
(***************************************************************************)
EXTENDS Integers, Sequences, FiniteSets, TLC

VARIABLES rev, registry, nodes, edges, pending, last, vcall, icall, rcall,
          pcall, draggedNodeType, isDragging, drag, clicks, copiedNode, imageReads,
          error, timers, clock, reads, grouping, generators, api

\* the state of the port resolver's direct calls
portVars == <<pcall>>

\* the state of useDragAndDrop and useCopyPaste, and of the browser around them
canvasVars == <<draggedNodeType, isDragging, drag, clicks, copiedNode, imageReads>>

\* the error of the store with its clearing timers, the time in seconds and
\* the file reads in flight
fileVars == <<error, timers, clock, reads>>

\* handleGroup waiting in nextTick: the id of its group node and the
\* positions in the store of the nodes it selected
groupVars == <<grouping>>

\* the generator node components: isGenerating, the prompt, the error shown
\* and the requests and error timers under way, per node
genVars == <<generators>>

\* one _callApi call: where it stands, the time, and what it returned
apiVars == <<api>>

\* the state beyond the store, the registry and the first three call records
ui == <<portVars, canvasVars, fileVars, groupVars, genVars, apiVars>>

vars == <<rev, registry, nodes, edges, pending, last, vcall, icall, rcall, ui>>

\* ------------------------------------------------------------------ bounds
\* Date.now() readings handed to the handlers are 1..MaxClock
MaxClock == 2
\* node creation stops at this many nodes in the store
MaxNodes == 2
\* user connections stop at this many edges in the store
MaxEdges == 2
\* longest nodes / edges array of an imported document
MaxDocLen == 2
\* click timers and image-file reads that can be waiting at one time
MaxWaiting == 1
\* the clock stops at this many seconds
MaxTime == 6
\* file reads that can be in flight at one time
MaxReads == 2
\* handleGroup adds its group node while the store has fewer nodes than this
MaxGroupNodes == 3
\* a generator node starts no request while it has this many in flight
MaxRequests == 2
\* a status request returns within this many half seconds
MaxFetchTime == 1
\* longest nodes / edges array handed to a direct validateConnection call
MaxArgLen == 1

\* ------------------------------------------------------------ node-shapes
NODE_TYPES ==
  [IMAGE |-> "image", IMAGE_GENERATOR |-> "image-generator", PROMPT |-> "prompt",
   DIFF |-> "diff", COMPARE |-> "compare", TEXT_GENERATOR |-> "text-generator",
   GROUP |-> "group"]

PORT_TYPES == [IMAGE |-> "image", PROMPT |-> "prompt"]

NODE_IO_CONFIG ==
  (NODE_TYPES.IMAGE :> [inputs |-> <<>>, outputs |-> <<PORT_TYPES.IMAGE>>]) @@
  (NODE_TYPES.IMAGE_GENERATOR :>
     [inputs |-> <<PORT_TYPES.IMAGE, PORT_TYPES.PROMPT>>, outputs |-> <<PORT_TYPES.IMAGE>>]) @@
  (NODE_TYPES.PROMPT :> [inputs |-> <<>>, outputs |-> <<PORT_TYPES.PROMPT>>]) @@
  (NODE_TYPES.DIFF :> [inputs |-> <<PORT_TYPES.IMAGE, PORT_TYPES.IMAGE>>, outputs |-> <<>>]) @@
  (NODE_TYPES.COMPARE :> [inputs |-> <<PORT_TYPES.IMAGE, PORT_TYPES.IMAGE>>, outputs |-> <<>>]) @@
  (NODE_TYPES.TEXT_GENERATOR :>
     [inputs |-> <<PORT_TYPES.IMAGE, PORT_TYPES.PROMPT>>, outputs |-> <<PORT_TYPES.PROMPT>>]) @@
  (NODE_TYPES.GROUP :> [inputs |-> <<>>, outputs |-> <<>>])

getNodeIOConfig(nodeType) ==
  IF nodeType \in DOMAIN NODE_IO_CONFIG
    THEN NODE_IO_CONFIG[nodeType]
    ELSE [inputs |-> <<>>, outputs |-> <<>>]

\* A position is the record of the typeof tags of its x and y; data is an
\* object with its label; io of a node is <<>> when undefined.
\* position.x || 0: a missing coordinate becomes the number 0
createNode(id, type, position, data, io) ==
  [id |-> id, type |-> type,
   position |-> [ty |-> "object",
                 x |-> IF position.x = "undefined" THEN "number" ELSE position.x,
                 y |-> IF position.y = "undefined" THEN "number" ELSE position.y],
   data |-> [ty |-> "object", label |-> IF data.label = "" THEN "Nodo" ELSE data.label],
   io |-> <<[inputs |-> io.inputs, outputs |-> io.outputs]>>]

\* ------------------------------------------------------ JavaScript values
\* A JavaScript value of a field: its typeof tag and, for a string, its text.
Str(s) == [ty |-> "string", s |-> s]
Undefined == [ty |-> "undefined", s |-> ""]
Num(s) == [ty |-> "number", s |-> s]

\* !v is false
Truthy(v) ==
  \/ v.ty = "string" /\ v.s # ""
  \/ v.ty = "number" /\ v.s \notin {"0", "NaN"}
  \/ v.ty = "object"

\* !v || typeof v !== 'string'
NotAString(v) == ~Truthy(v) \/ v.ty # "string"

\* an array with its items, or a value that is no array
Arr(items) == [isArray |-> TRUE, items |-> items]
NotAnArray == [isArray |-> FALSE, items |-> <<>>]

\* --------------------------------------------------------------- registry
\* The Map of the registry is the sequence of its values in insertion order;
\* the key of a value is its type.
\* Map.prototype.has
MapHas(reg, key) == \E i \in 1..Len(reg) : reg[i].type = key

\* Map.prototype.get: <<>> is undefined
MapGet(reg, key) ==
  IF \E i \in 1..Len(reg) : reg[i].type = key
    THEN <<reg[CHOOSE i \in 1..Len(reg) : reg[i].type = key]>>
    ELSE <<>>

\* Map.prototype.set: a key that is present keeps its place
MapSet(reg, key, value) ==
  IF MapHas(reg, key)
    THEN [i \in 1..Len(reg) |-> IF reg[i].type = key THEN value ELSE reg[i]]
    ELSE Append(reg, value)

\* Map.prototype.delete
MapDelete(reg, key) ==
  LET Other(entry) == entry.type # key
  IN  SelectSeq(reg, Other)

\* a definition object handed to registerNode; component "" is a missing one
NodeDefinition(type, label, inputs, outputs, component) ==
  [ty |-> "object", type |-> type, label |-> label,
   inputs |-> inputs, outputs |-> outputs, component |-> component]

\* throw new Error(message): the registry is as before the call
RegistryError(reg, message) == [threw |-> TRUE, error |-> message, nodes |-> reg]

\* the registration that adds the entry at the front of the listing
registerNodeAtFront(reg, definition) ==
  IF definition.ty # "object" \/ NotAString(definition.type)
       \/ MapHas(reg, definition.type.s) \/ NotAString(definition.label)
       \/ ~definition.inputs.isArray \/ ~definition.outputs.isArray
       \/ definition.component = ""
    THEN RegistryError(reg, "Node definition is invalid")
    ELSE [threw |-> FALSE, error |-> "",
          nodes |-> <<[type |-> definition.type.s, label |-> definition.label.s,
                       inputs |-> definition.inputs.items,
                       outputs |-> definition.outputs.items,
                       component |-> definition.component]>> \o reg]

\* the registration that overwrites an entry whose type is present
registerNodeOverwrites(reg, definition) ==
  IF definition.ty # "object"
    THEN RegistryError(reg, "Node definition must be an object")
  ELSE IF NotAString(definition.type)
    THEN RegistryError(reg, "Node definition must have a valid \"type\" string")
  ELSE IF NotAString(definition.label)
    THEN RegistryError(reg, "Node definition must have a valid \"label\" string")
  ELSE IF ~definition.inputs.isArray
    THEN RegistryError(reg, "Node definition must have an \"inputs\" array")
  ELSE IF ~definition.outputs.isArray
    THEN RegistryError(reg, "Node definition must have an \"outputs\" array")
  ELSE IF definition.component = ""
    THEN RegistryError(reg, "Node definition must have a \"component\"")
  ELSE [threw |-> MapHas(reg, definition.type.s),
        error |-> IF MapHas(reg, definition.type.s)
                    THEN "Node type \"" \o definition.type.s \o "\" is already registered"
                    ELSE "",
        nodes |-> MapSet(reg, definition.type.s,
                         [type |-> definition.type.s, label |-> definition.label.s,
                          inputs |-> definition.inputs.items,
                          outputs |-> definition.outputs.items,
                          component |-> definition.component])]

\* the registration that stores the entry before it checks the component
registerNodeStoresEarly(reg, definition) ==
  IF definition.ty # "object"
    THEN RegistryError(reg, "Node definition must be an object")
  ELSE IF NotAString(definition.type)
    THEN RegistryError(reg, "Node definition must have a valid \"type\" string")
  ELSE IF MapHas(reg, definition.type.s)
    THEN RegistryError(reg, "Node type \"" \o definition.type.s \o "\" is already registered")
  ELSE IF NotAString(definition.label)
    THEN RegistryError(reg, "Node definition must have a valid \"label\" string")
  ELSE IF ~definition.inputs.isArray
    THEN RegistryError(reg, "Node definition must have an \"inputs\" array")
  ELSE IF ~definition.outputs.isArray
    THEN RegistryError(reg, "Node definition must have an \"outputs\" array")
  ELSE [threw |-> definition.component = "",
        error |-> IF definition.component = ""
                    THEN "Node definition must have a \"component\"" ELSE "",
        nodes |-> MapSet(reg, definition.type.s,
                         [type |-> definition.type.s, label |-> definition.label.s,
                          inputs |-> definition.inputs.items,
                          outputs |-> definition.outputs.items,
                          component |-> definition.component])]

\* registerNode: the checks in the order of the code, then this.nodes.set;
\* the entry keeps type, label, the copied port lists and the component
registerNode(reg, definition) ==
  IF definition.ty # "object"
    THEN RegistryError(reg, "Node definition must be an object")
  ELSE IF NotAString(definition.type)
    THEN RegistryError(reg, "Node definition must have a valid \"type\" string")
  ELSE IF MapHas(reg, definition.type.s)
    THEN RegistryError(reg, "Node type \"" \o definition.type.s \o "\" is already registered")
  ELSE IF NotAString(definition.label)
    THEN RegistryError(reg, "Node definition must have a valid \"label\" string")
  ELSE IF ~definition.inputs.isArray
    THEN RegistryError(reg, "Node definition must have an \"inputs\" array")
  ELSE IF ~definition.outputs.isArray
    THEN RegistryError(reg, "Node definition must have an \"outputs\" array")
  ELSE IF definition.component = ""
    THEN RegistryError(reg, "Node definition must have a \"component\"")
  ELSE [threw |-> FALSE, error |-> "",
        nodes |-> MapSet(reg, definition.type.s,
                         [type |-> definition.type.s, label |-> definition.label.s,
                          inputs |-> definition.inputs.items,
                          outputs |-> definition.outputs.items,
                          component |-> definition.component])]

RECURSIVE RegisterEach(_, _)
\* registerNode called for each definition in turn
RegisterEach(reg, definitions) ==
  IF definitions = <<>> THEN reg
  ELSE RegisterEach(registerNode(reg, Head(definitions)).nodes, Tail(definitions))

ImageDefinition ==
  NodeDefinition(Str(NODE_TYPES.IMAGE), Str("Image"),
                 Arr(<<>>), Arr(<<PORT_TYPES.IMAGE>>), "ImageNode")

ImageGeneratorDefinition ==
  NodeDefinition(Str(NODE_TYPES.IMAGE_GENERATOR), Str("Image Generator"),
                 Arr(<<PORT_TYPES.IMAGE, PORT_TYPES.PROMPT>>), Arr(<<PORT_TYPES.IMAGE>>),
                 "ImageGeneratorNode")

PromptDefinition ==
  NodeDefinition(Str(NODE_TYPES.PROMPT), Str("Prompt"),
                 Arr(<<>>), Arr(<<PORT_TYPES.PROMPT>>), "PromptNode")

DiffDefinition ==
  NodeDefinition(Str(NODE_TYPES.DIFF), Str("Image Diff"),
                 Arr(<<PORT_TYPES.IMAGE, PORT_TYPES.IMAGE>>), Arr(<<>>), "DiffNode")

CompareDefinition ==
  NodeDefinition(Str(NODE_TYPES.COMPARE), Str("Image Compare"),
                 Arr(<<PORT_TYPES.IMAGE, PORT_TYPES.IMAGE>>), Arr(<<>>), "ImageCompareNode")

registerAllNodes ==
  RegisterEach(<<>>, <<ImageDefinition, ImageGeneratorDefinition, PromptDefinition>>)

\* the registration of the revision that also has the diff and compare nodes
registerAllNodesDiff ==
  RegisterEach(<<>>, <<ImageDefinition, ImageGeneratorDefinition, PromptDefinition,
                       DiffDefinition, CompareDefinition>>)

\* the definitions of the revision with the text generator and the group
PromptInDefinition ==
  NodeDefinition(Str(NODE_TYPES.PROMPT), Str("Prompt"),
                 Arr(<<PORT_TYPES.PROMPT>>), Arr(<<PORT_TYPES.PROMPT>>), "PromptNode")

\* NODE_TYPES.PROMPT_TEMPLATE is a key of the node-shapes revision this
\* registration imports; the tag is written after the key
PromptTemplateDefinition ==
  NodeDefinition(Str("prompt-template"), Str("Prompt Template"),
                 Arr(<<PORT_TYPES.PROMPT>>), Arr(<<PORT_TYPES.PROMPT>>),
                 "PromptTemplateNode")

TextGeneratorDefinition ==
  NodeDefinition(Str(NODE_TYPES.TEXT_GENERATOR), Str("Text Generator"),
                 Arr(<<PORT_TYPES.IMAGE, PORT_TYPES.PROMPT>>), Arr(<<PORT_TYPES.PROMPT>>),
                 "TextGeneratorNode")

GroupDefinition ==
  NodeDefinition(Str(NODE_TYPES.GROUP), Str("Group"), Arr(<<>>), Arr(<<>>), "GroupNode")

registerAllNodesGroup ==
  RegisterEach(<<>>, <<ImageDefinition, ImageGeneratorDefinition, PromptInDefinition,
                       PromptTemplateDefinition, DiffDefinition, CompareDefinition,
                       TextGeneratorDefinition, GroupDefinition>>)

hasNode(type) == MapHas(registry, type)

\* the lookup that treats an entry without input ports as absent
getNodeDefNeedsInputs(type) ==
  LET found == MapGet(registry, type)
  IN  IF found = <<>> \/ found[1].inputs = <<>> THEN <<>> ELSE found

\* this.nodes.get(type) || null: every stored value is an object
getNodeDef(type) ==
  LET found == MapGet(registry, type)
  IN  IF found = <<>> THEN <<>> ELSE found

\* Array.from(this.nodes.values())
listNodes == registry

\* the removal that drops the last entry when the type is absent
unregisterNodeDropsLast(reg, type) ==
  [existed |-> MapHas(reg, type),
   nodes |-> IF MapHas(reg, type) THEN MapDelete(reg, type)
             ELSE SubSeq(reg, 1, Len(reg) - 1)]

unregisterNode(reg, type) ==
  [existed |-> MapHas(reg, type), nodes |-> MapDelete(reg, type)]

\* this.nodes.clear()
clear(reg) == <<>>

\* ------------------------------------------------------------- connection
\* Array.prototype.find over the nodes: the first node with the id
FindNode(ns, id) ==
  IF \E i \in 1..Len(ns) : ns[i].id = id
    THEN <<ns[CHOOSE i \in 1..Len(ns) :
                ns[i].id = id /\ \A j \in 1..(i - 1) : ns[j].id # id]>>
    ELSE <<>>

NaN == -1

\* parseInt of one segment of a handle id: the leading digits count, what
\* follows them is ignored
ParseInt(s) ==
  CASE s = "0" -> 0
    [] s = "1" -> 1
    [] s = "2" -> 2
    [] s = "1px" -> 1
    [] OTHER -> NaN

\* the port-type tag of one end of an edge, <<>> for null
getEdgePortType(edge, ns, isSource) ==
  LET nodeId == IF isSource THEN edge.source ELSE edge.target
      handleId == IF isSource THEN edge.sourceHandle ELSE edge.targetHandle
      node == FindNode(ns, nodeId)
      nodeDef == IF node = <<>> THEN <<>> ELSE getNodeDef(node[1].type)
      handleIndex == IF Len(handleId) >= 2 THEN ParseInt(handleId[2]) ELSE NaN
      portTypes == IF isSource THEN nodeDef[1].outputs ELSE nodeDef[1].inputs
  IN  IF nodeId = "" \/ handleId = <<>> THEN <<>>
      ELSE IF node = <<>> THEN <<>>
      ELSE IF nodeDef = <<>> THEN <<>>
      ELSE IF handleIndex = NaN THEN <<>>
      ELSE IF handleIndex + 1 \in 1..Len(portTypes)
             THEN <<portTypes[handleIndex + 1]>>
             ELSE <<>>

canConnect(sourcePortType, targetPortType) == sourcePortType = targetPortType

\* only the first output and the first input are compared
hasCompatiblePortFirstOnly(outputs, inputs) ==
  Len(outputs) > 0 /\ Len(inputs) > 0 /\ canConnect(outputs[1], inputs[1])

\* outputs.some(o => inputs.some(i => canConnect(o, i)))
hasCompatiblePort(outputs, inputs) ==
  \E o \in 1..Len(outputs) : \E i \in 1..Len(inputs) : canConnect(outputs[o], inputs[i])

Valid == [valid |-> TRUE, reason |-> ""]
Invalid(reason) == [valid |-> FALSE, reason |-> reason]

\* the validator of the current revision: node definitions from the registry
canNodesConnect(sourceNodeType, targetNodeType) ==
  LET sourceDef == getNodeDef(sourceNodeType)
      targetDef == getNodeDef(targetNodeType)
  IN  IF sourceDef = <<>>
        THEN Invalid("Source node type \"" \o sourceNodeType \o "\" not found in registry")
      ELSE IF targetDef = <<>>
        THEN Invalid("Target node type \"" \o targetNodeType \o "\" not found in registry")
      ELSE IF Len(sourceDef[1].outputs) = 0
        THEN Invalid("Source node has no output ports")
      ELSE IF Len(targetDef[1].inputs) = 0
        THEN Invalid("Target node has no input ports")
      ELSE IF ~hasCompatiblePort(sourceDef[1].outputs, targetDef[1].inputs)
        THEN Invalid("Nodes have no compatible ports")
      ELSE Valid

\* the validator of the legacy revision: port lists from NODE_IO_CONFIG
canNodesConnectConfig(sourceNodeType, targetNodeType) ==
  LET sourceConfig == getNodeIOConfig(sourceNodeType)
      targetConfig == getNodeIOConfig(targetNodeType)
  IN  IF Len(sourceConfig.outputs) = 0
        THEN Invalid("Source node has no output ports")
      ELSE IF Len(targetConfig.inputs) = 0
        THEN Invalid("Target node has no input ports")
      ELSE IF ~hasCompatiblePort(sourceConfig.outputs, targetConfig.inputs)
        THEN Invalid("Nodes have no compatible ports")
      ELSE Valid

\* the duplicate check keyed on the handles as well
isDuplicateByHandles(connection, existingEdges) ==
  \E i \in 1..Len(existingEdges) :
    /\ existingEdges[i].source = connection.source
    /\ existingEdges[i].target = connection.target
    /\ existingEdges[i].sourceHandle = connection.sourceHandle
    /\ existingEdges[i].targetHandle = connection.targetHandle

isDuplicate(connection, existingEdges) ==
  \E i \in 1..Len(existingEdges) :
    existingEdges[i].source = connection.source /\
    existingEdges[i].target = connection.target

NodesCompatibility(sourceNode, targetNode) ==
  IF rev = "legacy"
    THEN canNodesConnectConfig(sourceNode[1].type, targetNode[1].type)
    ELSE canNodesConnect(sourceNode[1].type, targetNode[1].type)

\* the validator without the self-connection check
validateConnectionNoSelfCheck(connection, sourceNode, targetNode, existingEdges) ==
  IF sourceNode = <<>> THEN Invalid("Source node not found")
  ELSE IF targetNode = <<>> THEN Invalid("Target node not found")
  ELSE IF ~NodesCompatibility(sourceNode, targetNode).valid
    THEN NodesCompatibility(sourceNode, targetNode)
  ELSE IF isDuplicate(connection, existingEdges)
    THEN Invalid("This connection already exists")
  ELSE Valid

\* the validator with the duplicate check ahead of the compatibility check
validateConnectionDuplicateFirst(connection, sourceNode, targetNode, existingEdges) ==
  IF sourceNode = <<>> THEN Invalid("Source node not found")
  ELSE IF targetNode = <<>> THEN Invalid("Target node not found")
  ELSE IF connection.source = connection.target
    THEN Invalid("Cannot connect a node to itself")
  ELSE IF isDuplicate(connection, existingEdges)
    THEN Invalid("This connection already exists")
  ELSE IF ~NodesCompatibility(sourceNode, targetNode).valid
    THEN NodesCompatibility(sourceNode, targetNode)
  ELSE Valid

validateConnection(connection, sourceNode, targetNode, existingEdges) ==
  IF sourceNode = <<>> THEN Invalid("Source node not found")
  ELSE IF targetNode = <<>> THEN Invalid("Target node not found")
  ELSE IF connection.source = connection.target
    THEN Invalid("Cannot connect a node to itself")
  ELSE LET nodesCompatibility == NodesCompatibility(sourceNode, targetNode)
       IN  IF ~nodesCompatibility.valid THEN nodesCompatibility
           ELSE IF isDuplicate(connection, existingEdges)
             THEN Invalid("This connection already exists")
           ELSE Valid

\* ---------------------------------------------------------------- flow-io
RECURSIVE Join(_, _)
\* Array.prototype.join
Join(strs, sep) ==
  IF Len(strs) = 0 THEN ""
  ELSE IF Len(strs) = 1 THEN strs[1]
  ELSE strs[1] \o sep \o Join(Tail(strs), sep)

RECURSIVE Flatten(_)
Flatten(seqs) == IF seqs = <<>> THEN <<>> ELSE Head(seqs) \o Flatten(Tail(seqs))

Opt(cond, msg) == IF cond THEN <<msg>> ELSE <<>>

\* the errors one element of flowData.nodes adds; index counts from 0
NodeErrors(node, index) ==
  LET at == "Node " \o ToString(index) \o ": missing or invalid "
  IN  Opt(NotAString(node.id), at \o "id")
      \o Opt(NotAString(node.type), at \o "type")
      \o Opt(node.position.ty # "object" \/ node.position.x # "number"
               \/ node.position.y # "number", at \o "position")
      \o Opt(node.data.ty # "object", at \o "data")

\* the errors one element of flowData.edges adds
EdgeErrors(edge, index) ==
  LET at == "Edge " \o ToString(index) \o ": missing or invalid "
  IN  Opt(NotAString(edge.id), at \o "id")
      \o Opt(NotAString(edge.source), at \o "source")
      \o Opt(NotAString(edge.target), at \o "target")

\* forEach reads node.id / edge.id: a null or undefined element throws
HasNullElement(array) ==
  array.isArray /\ \E i \in 1..Len(array.items) : array.items[i].ty \in {"null", "undefined"}

\* validateFlow that returns after the first error it finds
validateFlowFirstErrorOnly(flowData) ==
  IF flowData.ty # "object"
    THEN [threw |-> FALSE, valid |-> FALSE, errors |-> <<"Flow data must be an object">>]
  ELSE IF HasNullElement(flowData.nodes) \/ HasNullElement(flowData.edges)
    THEN [threw |-> TRUE, valid |-> FALSE,
          errors |-> <<"Cannot read properties of null (reading 'id')">>]
    ELSE
      LET errors ==
            Opt(NotAString(flowData.version), "Missing or invalid version")
            \o Opt(NotAString(flowData.createdAt), "Missing or invalid createdAt")
            \o (IF ~flowData.nodes.isArray
                  THEN <<"Nodes must be an array">>
                  ELSE Flatten([i \in 1..Len(flowData.nodes.items) |->
                                  NodeErrors(flowData.nodes.items[i], i - 1)]))
            \o (IF ~flowData.edges.isArray
                  THEN <<"Edges must be an array">>
                  ELSE Flatten([i \in 1..Len(flowData.edges.items) |->
                                  EdgeErrors(flowData.edges.items[i], i - 1)]))
      IN  [threw |-> FALSE, valid |-> Len(errors) = 0,
           errors |-> IF errors = <<>> THEN <<>> ELSE <<Head(errors)>>]

\* threw: a TypeError leaves validateFlow; no result is returned then
validateFlow(flowData) ==
  IF flowData.ty # "object"
    THEN [threw |-> FALSE, valid |-> FALSE, errors |-> <<"Flow data must be an object">>]
  ELSE IF HasNullElement(flowData.nodes) \/ HasNullElement(flowData.edges)
    THEN [threw |-> TRUE, valid |-> FALSE,
          errors |-> <<"Cannot read properties of null (reading 'id')">>]
    ELSE
      LET errors ==
            Opt(NotAString(flowData.version), "Missing or invalid version")
            \o Opt(NotAString(flowData.createdAt), "Missing or invalid createdAt")
            \o (IF ~flowData.nodes.isArray
                  THEN <<"Nodes must be an array">>
                  ELSE Flatten([i \in 1..Len(flowData.nodes.items) |->
                                  NodeErrors(flowData.nodes.items[i], i - 1)]))
            \o (IF ~flowData.edges.isArray
                  THEN <<"Edges must be an array">>
                  ELSE Flatten([i \in 1..Len(flowData.edges.items) |->
                                  EdgeErrors(flowData.edges.items[i], i - 1)]))
      IN  [threw |-> FALSE, valid |-> Len(errors) = 0, errors |-> errors]

\* the object importFlow hands to flowStore.addNode
ImportedNode(node) ==
  [id |-> node.id.s, type |-> node.type.s, position |-> node.position,
   data |-> node.data, io |-> node.io]

\* the object importFlow hands to flowStore.addEdge
ImportedEdge(edge) ==
  [id |-> edge.id.s, source |-> edge.source.s, target |-> edge.target.s,
   sourceHandle |-> edge.sourceHandle, targetHandle |-> edge.targetHandle]

\* the options store has the actions addNode, addEdge and removeNode; the
\* setup store returns nodes, edges, isLoading, error and four actions only
storeHasAddNode == rev = "legacy"

\* importFlow that clears the store before it validates
importFlowClearsFirst(flowData, storeNodes, storeEdges) ==
  LET validation == validateFlow(flowData)
  IN  IF validation.threw
        THEN [threw |-> TRUE, success |-> FALSE, error |-> validation.errors[1],
              nodes |-> <<>>, edges |-> <<>>]
      ELSE IF ~validation.valid
        THEN [threw |-> FALSE, success |-> FALSE,
              error |-> "Invalid flow format: " \o Join(validation.errors, ", "),
              nodes |-> <<>>, edges |-> <<>>]
      ELSE [threw |-> FALSE, success |-> storeHasAddNode, error |-> "",
            nodes |-> IF storeHasAddNode
                        THEN [i \in 1..Len(flowData.nodes.items) |->
                                ImportedNode(flowData.nodes.items[i])]
                        ELSE <<>>,
            edges |-> IF storeHasAddNode
                        THEN [i \in 1..Len(flowData.edges.items) |->
                                ImportedEdge(flowData.edges.items[i])]
                        ELSE <<>>]

\* importFlow that adds to the store without clearing it
importFlowMerges(flowData, storeNodes, storeEdges) ==
  LET validation == validateFlow(flowData)
  IN  IF validation.threw
        THEN [threw |-> TRUE, success |-> FALSE, error |-> validation.errors[1],
              nodes |-> storeNodes, edges |-> storeEdges]
      ELSE IF ~validation.valid
        THEN [threw |-> FALSE, success |-> FALSE,
              error |-> "Invalid flow format: " \o Join(validation.errors, ", "),
              nodes |-> storeNodes, edges |-> storeEdges]
      ELSE [threw |-> FALSE, success |-> TRUE, error |-> "",
            nodes |-> storeNodes \o [i \in 1..Len(flowData.nodes.items) |->
                                      ImportedNode(flowData.nodes.items[i])],
            edges |-> storeEdges \o [i \in 1..Len(flowData.edges.items) |->
                                      ImportedEdge(flowData.edges.items[i])]]

\* importFlow: what it returns and what it leaves in the store; threw when
\* the exception of validateFlow, raised outside the try, leaves importFlow
importFlow(flowData, storeNodes, storeEdges) ==
  LET validation == validateFlow(flowData)
  IN  IF validation.threw
        THEN [threw |-> TRUE, success |-> FALSE, error |-> validation.errors[1],
              nodes |-> storeNodes, edges |-> storeEdges]
      ELSE IF ~validation.valid
        THEN [threw |-> FALSE, success |-> FALSE,
              error |-> "Invalid flow format: " \o Join(validation.errors, ", "),
              nodes |-> storeNodes, edges |-> storeEdges]
      ELSE IF storeHasAddNode
        THEN [threw |-> FALSE, success |-> TRUE, error |-> "",
              nodes |-> [i \in 1..Len(flowData.nodes.items) |->
                           ImportedNode(flowData.nodes.items[i])],
              edges |-> [i \in 1..Len(flowData.edges.items) |->
                           ImportedEdge(flowData.edges.items[i])]]
      ELSE IF Len(flowData.nodes.items) > 0
        \* flowStore.addNode is undefined: the call throws inside the try,
        \* after both collections were cleared
        THEN [threw |-> FALSE, success |-> FALSE,
              error |-> "flowStore.addNode is not a function",
              nodes |-> <<>>, edges |-> <<>>]
      ELSE IF Len(flowData.edges.items) > 0
        THEN [threw |-> FALSE, success |-> FALSE,
              error |-> "flowStore.addEdge is not a function",
              nodes |-> <<>>, edges |-> <<>>]
      ELSE [threw |-> FALSE, success |-> TRUE, error |-> "", nodes |-> <<>>, edges |-> <<>>]

FLOW_VERSION == "1.0.0"

\* new Date().toISOString() at the clock reading now
toISOString(now) == "2025-01-01T00:00:0" \o ToString(now) \o ".000Z"

\* the element exportFlow writes for a node of the store
ExportedNode(node) ==
  [ty |-> "object", id |-> Str(node.id), type |-> Str(node.type),
   position |-> node.position, data |-> node.data, io |-> node.io]

\* the element exportFlow writes for an edge of the store
ExportedEdge(edge) ==
  [ty |-> "object", id |-> Str(edge.id), source |-> Str(edge.source),
   target |-> Str(edge.target), sourceHandle |-> edge.sourceHandle,
   targetHandle |-> edge.targetHandle]

exportFlow(storeNodes, storeEdges, now) ==
  [ty |-> "object", version |-> Str(FLOW_VERSION), createdAt |-> Str(toISOString(now)),
   nodes |-> Arr([i \in 1..Len(storeNodes) |-> ExportedNode(storeNodes[i])]),
   edges |-> Arr([i \in 1..Len(storeEdges) |-> ExportedEdge(storeEdges[i])])]

\* file.name.endsWith('.json'): a name is the sequence of its '.' separated parts
EndsWithJson(name) == Len(name) >= 2 /\ name[Len(name)] = "json"

LoadFailure(message, storeNodes, storeEdges) ==
  [success |-> FALSE, error |-> message, nodes |-> storeNodes, edges |-> storeEdges]

\* loadFlowFromFile: the value the promise resolves with and what is left in
\* the store; content.parses is whether JSON.parse returns, content.value
\* what it returns
loadFlowFromFile(file, storeNodes, storeEdges) ==
  IF ~file.present THEN LoadFailure("No file provided", storeNodes, storeEdges)
  ELSE IF file.type # "application/json" /\ ~EndsWithJson(file.name)
    THEN LoadFailure("File must be a JSON file", storeNodes, storeEdges)
  ELSE IF ~file.readable THEN LoadFailure("Failed to read file", storeNodes, storeEdges)
  ELSE IF ~file.content.parses
    THEN LoadFailure("Invalid JSON format", storeNodes, storeEdges)
  ELSE LET result == importFlow(file.content.value, storeNodes, storeEdges)
       IN  IF result.threw
             THEN LoadFailure("Invalid JSON format", result.nodes, result.edges)
             ELSE [success |-> result.success, error |-> result.error,
                   nodes |-> result.nodes, edges |-> result.edges]

\* ------------------------------------------------------------------ inputs
\* sequences over S of length at most n
SeqsUpTo(S, n) == UNION {[1..k -> S] : k \in 0..n}

Output0 == <<"output", "0">>
Input0 == <<"input", "0">>
Input1 == <<"input", "1">>

PosOK == [ty |-> "object", x |-> "number", y |-> "number"]

DocNode(id, type) ==
  [ty |-> "object", id |-> Str(id), type |-> Str(type), position |-> PosOK,
   data |-> [ty |-> "object", label |-> "New node"], io |-> <<getNodeIOConfig(type)>>]

DocEdge(id, source, target) ==
  [ty |-> "object", id |-> Str(id), source |-> Str(source), target |-> Str(target),
   sourceHandle |-> Output0, targetHandle |-> Input0]

GoodNode == DocNode("node-1", NODE_TYPES.IMAGE)
GoodEdge == DocEdge("edge-1", "node-1", "node-2")

GoodDocNodes == {GoodNode, DocNode("node-2", NODE_TYPES.IMAGE_GENERATOR)}

\* an edge between the two nodes and a self-loop
GoodDocEdges == {GoodEdge, DocEdge("edge-2", "node-2", "node-2")}

\* one structural violation each
BadDocNodes ==
  {[GoodNode EXCEPT !.id = Undefined],
   [GoodNode EXCEPT !.type = Num("7")],
   [GoodNode EXCEPT !.position = [ty |-> "object", x |-> "number", y |-> "string"]],
   [GoodNode EXCEPT !.data = [ty |-> "undefined", label |-> ""]]}

BadDocEdges ==
  {[GoodEdge EXCEPT !.id = Undefined],
   [GoodEdge EXCEPT !.source = Undefined],
   [GoodEdge EXCEPT !.target = Str("")]}

Doc(version, createdAt, ns, es) ==
  [ty |-> "object", version |-> version, createdAt |-> createdAt,
   nodes |-> ns, edges |-> es]

GoodVersion == Str(FLOW_VERSION)
GoodCreatedAt == Str("2025-01-01T00:00:00.000Z")

\* documents that pass validateFlow
ValidDocs ==
  {Doc(GoodVersion, GoodCreatedAt, Arr(ns), Arr(es)) :
     ns \in SeqsUpTo(GoodDocNodes, MaxDocLen), es \in SeqsUpTo(GoodDocEdges, MaxDocLen)}

\* documents with a broken header
HeaderDocs ==
  {Doc(v, c, ns, es) :
     v \in {GoodVersion, Undefined, Num("1")},
     c \in {GoodCreatedAt, Undefined},
     ns \in {NotAnArray, Arr(<<GoodNode>>)},
     es \in {NotAnArray, Arr(<<[GoodEdge EXCEPT !.target = Undefined]>>)}}

\* documents with broken elements
ElementDocs ==
  {Doc(GoodVersion, GoodCreatedAt, Arr(ns), Arr(<<>>)) :
     ns \in {<<b>> : b \in BadDocNodes} \cup {<<GoodNode, b>> : b \in BadDocNodes}}
  \cup
  {Doc(GoodVersion, GoodCreatedAt, Arr(<<GoodNode>>), Arr(es)) :
     es \in {<<b>> : b \in BadDocEdges} \cup {<<GoodEdge, b>> : b \in BadDocEdges}}

NonObjectDocs ==
  {[ty |-> t, version |-> Undefined, createdAt |-> Undefined,
    nodes |-> NotAnArray, edges |-> NotAnArray] : t \in {"null", "string"}}

Docs == ValidDocs \cup HeaderDocs \cup ElementDocs \cup NonObjectDocs

\* the handles BaseNode renders for a node: one per declared port
OutputHandles(type) ==
  {<<"output", ToString(i - 1)>> : i \in 1..Len(getNodeIOConfig(type).outputs)}

InputHandles(type) ==
  {<<"input", ToString(i - 1)>> : i \in 1..Len(getNodeIOConfig(type).inputs)}

\* the connections the canvas can offer: from an output handle of a node in
\* the store to an input handle of a node in the store
Connections ==
  {[source |-> nodes[i].id, target |-> nodes[j].id, sourceHandle |-> sh, targetHandle |-> th] :
     <<i, j, sh, th>> \in
       {q \in (1..Len(nodes)) \X (1..Len(nodes)) \X {Output0} \X {Input0, Input1} :
          q[3] \in OutputHandles(nodes[q[1]].type) /\ q[4] \in InputHandles(nodes[q[2]].type)}}

\* ------------------------------------------------------------------- store
createEdge(id, source, target, sourceHandle, targetHandle) ==
  [id |-> id, source |-> source, target |-> target,
   sourceHandle |-> sourceHandle, targetHandle |-> targetHandle]

\* initMockNodes: the graph the legacy view mounts with
MockNodes ==
  <<createNode("node-1", NODE_TYPES.IMAGE, PosOK, [label |-> "Image 1"],
               getNodeIOConfig(NODE_TYPES.IMAGE)),
    createNode("node-2", NODE_TYPES.IMAGE_GENERATOR, PosOK, [label |-> "Generator 1"],
               getNodeIOConfig(NODE_TYPES.IMAGE_GENERATOR)),
    createNode("node-3", NODE_TYPES.IMAGE_GENERATOR, PosOK, [label |-> "Generator 2"],
               getNodeIOConfig(NODE_TYPES.IMAGE_GENERATOR))>>

MockEdges == <<createEdge("edge-1", "node-1", "node-2", <<>>, <<>>)>>

\* the text of a handle id
HandleStr(h) == Join(h, "-")

\* addEdges([params]) of the rendering library, bound to flowStore.edges
addEdges(storeEdges, params) ==
  Append(storeEdges,
         createEdge("vueflow__edge-" \o params.source \o HandleStr(params.sourceHandle)
                      \o "-" \o params.target \o HandleStr(params.targetHandle),
                    params.source, params.target,
                    params.sourceHandle, params.targetHandle))

Edit == [op |-> "edit"]

\* ----------------------------------------------------------------- actions
\* onDragStart of a menu item followed by onDrop on the canvas
OnDrop(nodeType, now) ==
  /\ Len(nodes) < MaxNodes
  /\ getNodeDef(nodeType) # <<>>
  /\ nodes' = Append(nodes,
                      createNode("node_" \o ToString(now), nodeType, PosOK,
                                 [label |-> "New " \o getNodeDef(nodeType)[1].label],
                                 getNodeIOConfig(nodeType)))
  /\ last' = Edit
  /\ UNCHANGED <<rev, registry, edges, pending, vcall, icall, rcall, ui>>

\* isValidConnection of the current view: the verdict shown while dragging
isValidConnection(connection) ==
  LET sourceNode == FindNode(nodes, connection.source)
      targetNode == FindNode(nodes, connection.target)
  IN  IF sourceNode = <<>> \/ targetNode = <<>> THEN FALSE
      ELSE validateConnection(connection, sourceNode, targetNode, edges).valid

IsValidConnection(connection) ==
  /\ rev = "current"
  /\ pending' = <<[connection |-> connection, valid |-> isValidConnection(connection)]>>
  /\ last' = Edit
  /\ UNCHANGED <<rev, registry, nodes, edges, vcall, icall, rcall, ui>>

\* onConnect of the current view: fired by the rendering library for the
\* connection whose last drag verdict was valid
OnConnect ==
  /\ rev = "current"
  /\ pending # <<>>
  /\ pending[1].valid
  /\ Len(edges) < MaxEdges
  /\ edges' = addEdges(edges, pending[1].connection)
  /\ pending' = <<>>
  /\ last' = [op |-> "connect", connection |-> pending[1].connection, added |-> TRUE]
  /\ UNCHANGED <<rev, registry, nodes, vcall, icall, rcall, ui>>

\* onConnect of the legacy view: validates, then flowStore.addEdge
OnConnectLegacy(connection, now) ==
  /\ rev = "legacy"
  /\ Len(edges) < MaxEdges
  /\ LET validation ==
           validateConnection(connection, FindNode(nodes, connection.source),
                              FindNode(nodes, connection.target), edges)
     IN  IF ~validation.valid
           THEN /\ edges' = edges
                /\ last' = [op |-> "connect", connection |-> connection, added |-> FALSE]
           ELSE /\ edges' = Append(edges,
                       createEdge("edge_" \o connection.source \o "_" \o connection.target
                                    \o "_" \o ToString(now),
                                  connection.source, connection.target,
                                  connection.sourceHandle, connection.targetHandle))
                /\ last' = [op |-> "connect", connection |-> connection, added |-> TRUE]
  /\ UNCHANGED <<rev, registry, nodes, pending, vcall, icall, rcall, ui>>

\* removeNode of the options store
RemoveNode(nodeId) ==
  /\ rev = "legacy"
  /\ LET KeepNode(node) == node.id # nodeId
         KeepEdge(edge) == edge.source # nodeId /\ edge.target # nodeId
     IN  /\ nodes' = SelectSeq(nodes, KeepNode)
         /\ edges' = SelectSeq(edges, KeepEdge)
  /\ last' = Edit
  /\ UNCHANGED <<rev, registry, pending, vcall, icall, rcall, ui>>

\* importFlow on the store
ImportFlow(flowData) ==
  /\ LET result == importFlow(flowData, nodes, edges)
     IN  /\ nodes' = result.nodes
         /\ edges' = result.edges
         /\ last' = [op |-> "import", success |-> result.success,
                     valid |-> validateFlow(flowData).valid]
  /\ UNCHANGED <<rev, registry, pending, vcall, icall, rcall, ui>>

RegisteredTypes == {listNodes[i].type : i \in 1..Len(listNodes)}

\* the generator components on the canvas: an image and a text generator
GeneratorKinds ==
  ("node-2" :> NODE_TYPES.IMAGE_GENERATOR) @@ ("node-4" :> NODE_TYPES.TEXT_GENERATOR)

\* nothing has been called yet, no component is generating
InitUi ==
  /\ pcall = <<>>
  /\ draggedNodeType = <<>>
  /\ isDragging = FALSE
  /\ drag = <<>>
  /\ clicks = <<>>
  /\ copiedNode = <<>>
  /\ imageReads = 0
  /\ error = <<>>
  /\ timers = {}
  /\ clock = 0
  /\ reads = <<>>
  /\ grouping = <<>>
  /\ generators = [n \in DOMAIN GeneratorKinds |->
                     [isGenerating |-> FALSE, requests |-> 0, prompt |-> "",
                      error |-> <<>>, errorTimer |-> FALSE, generated |-> FALSE]]
  /\ api = [phase |-> "idle", now |-> 0, startTime |-> 0, prediction |-> <<>>,
            error |-> ""]

Init ==
  /\ rev \in {"legacy", "current"}
  /\ registry = registerAllNodes
  /\ nodes = IF rev = "legacy" THEN MockNodes ELSE <<>>
  /\ edges = IF rev = "legacy" THEN MockEdges ELSE <<>>
  /\ pending = <<>>
  /\ last = Edit
  /\ vcall = <<>>
  /\ icall = <<>>
  /\ rcall = <<>>
  /\ InitUi

Next ==
  \/ \E t \in RegisteredTypes, now \in 1..MaxClock : OnDrop(t, now)
  \/ \E c \in Connections : IsValidConnection(c)
  \/ OnConnect
  \/ \E c \in Connections, now \in 1..MaxClock : OnConnectLegacy(c, now)
  \/ \E i \in 1..Len(nodes) : RemoveNode(nodes[i].id)
  \/ \E d \in Docs : ImportFlow(d)

Spec == Init /\ [][Next]_vars

\* ------------------------------------------- direct calls of the validator
ArgIds == {"node-1", "node-2"}
ArgTypes == {NODE_TYPES.IMAGE, NODE_TYPES.IMAGE_GENERATOR, NODE_TYPES.PROMPT, NODE_TYPES.DIFF}

ArgNode(id, type) == createNode(id, type, PosOK, [label |-> ""], getNodeIOConfig(type))

\* node collections with distinct ids
ArgNodes ==
  {<<>>} \cup
  {<<ArgNode(i, t)>> : i \in ArgIds, t \in ArgTypes} \cup
  {<<ArgNode("node-1", t), ArgNode("node-2", u)>> : t \in ArgTypes, u \in ArgTypes}

ArgEdges ==
  {createEdge("edge-1", s, t, sh, th) :
     s \in ArgIds, t \in ArgIds, sh \in {<<>>, Output0}, th \in {Input0, Input1}}

ArgConnections ==
  {[source |-> s, target |-> t, sourceHandle |-> sh, targetHandle |-> th] :
     s \in ArgIds, t \in ArgIds, sh \in {<<>>, Output0}, th \in {Input0, Input1}}

InitValidate ==
  /\ rev \in {"legacy", "current"}
  /\ registry \in {registerAllNodes, registerAllNodesDiff}
  /\ nodes \in ArgNodes
  /\ edges \in SeqsUpTo(ArgEdges, MaxArgLen)
  /\ pending = <<>>
  /\ last = Edit
  /\ vcall = <<>>
  /\ icall = <<>>
  /\ rcall = <<>>
  /\ InitUi

\* validateConnection(connection, find(source), find(target), edges)
ValidateCall(connection) ==
  /\ vcall' = <<[connection |-> connection,
                 sourceNode |-> FindNode(nodes, connection.source),
                 targetNode |-> FindNode(nodes, connection.target),
                 result |-> validateConnection(connection,
                                               FindNode(nodes, connection.source),
                                               FindNode(nodes, connection.target), edges)]>>
  /\ UNCHANGED <<rev, registry, nodes, edges, pending, last, icall, rcall, ui>>

NextValidate == \E c \in ArgConnections : ValidateCall(c)

SpecValidate == InitValidate /\ [][NextValidate]_vars

\* editing only: connections, node creation and node removal, no import
NextEdit ==
  \/ \E t \in RegisteredTypes, now \in 1..MaxClock : OnDrop(t, now)
  \/ \E c \in Connections : IsValidConnection(c)
  \/ OnConnect
  \/ \E c \in Connections, now \in 1..MaxClock : OnConnectLegacy(c, now)
  \/ \E i \in 1..Len(nodes) : RemoveNode(nodes[i].id)

SpecEdit == Init /\ [][NextEdit]_vars

\* ------------------------------------------- direct calls of the flow-io
\* a null element of an array: every property read of it throws
NullNode ==
  [ty |-> "null", id |-> Undefined, type |-> Undefined,
   position |-> [ty |-> "undefined", x |-> "undefined", y |-> "undefined"],
   data |-> [ty |-> "undefined", label |-> ""], io |-> <<>>]

NullEdge ==
  [ty |-> "null", id |-> Undefined, source |-> Undefined, target |-> Undefined,
   sourceHandle |-> <<>>, targetHandle |-> <<>>]

\* a number where a node object is expected: every property of it is undefined
NumberNode == [NullNode EXCEPT !.ty = "number"]

SelfEdge == DocEdge("edge-2", "node-2", "node-2")

CallEdgeArrays == {<<>>, <<GoodEdge>>, <<GoodEdge, SelfEdge>>, <<SelfEdge, GoodEdge>>}

\* documents that pass validateFlow; one has a node without io
ValidCallDocs ==
  {Doc(GoodVersion, GoodCreatedAt, Arr(ns), Arr(es)) :
     ns \in SeqsUpTo(GoodDocNodes, MaxDocLen), es \in CallEdgeArrays}
  \cup {Doc(GoodVersion, GoodCreatedAt, Arr(<<[GoodNode EXCEPT !.io = <<>>]>>), Arr(<<>>))}

\* documents with a null element, and one with a number as a node
NullDocs ==
  {Doc(GoodVersion, GoodCreatedAt, Arr(<<NullNode>>), Arr(<<>>)),
   Doc(GoodVersion, GoodCreatedAt, Arr(<<GoodNode>>), Arr(<<GoodEdge, NullEdge>>)),
   Doc(Undefined, GoodCreatedAt, NotAnArray, Arr(<<NullEdge>>))}

\* two nodes and one edge whose source was deleted; a number as a node
CorruptDocs ==
  {Doc(GoodVersion, GoodCreatedAt,
       Arr(<<GoodNode, DocNode("node-2", NODE_TYPES.IMAGE_GENERATOR)>>),
       Arr(<<[GoodEdge EXCEPT !.source = Undefined]>>)),
   Doc(GoodVersion, GoodCreatedAt, Arr(<<NumberNode>>), Arr(<<>>))}

CallDocs ==
  ValidCallDocs \cup HeaderDocs \cup ElementDocs \cup NonObjectDocs \cup NullDocs
  \cup CorruptDocs

\* a text JSON.parse throws on
NoContent == [parses |-> FALSE, value |-> Doc(Undefined, Undefined, NotAnArray, NotAnArray)]

\* what JSON.parse makes of the text of a file
FileContents ==
  {NoContent}
  \cup
  {[parses |-> TRUE, value |-> d] :
     d \in {Doc(GoodVersion, GoodCreatedAt, Arr(<<GoodNode>>), Arr(<<GoodEdge>>)),
            Doc(Undefined, GoodCreatedAt, Arr(<<GoodNode>>), Arr(<<>>)),
            Doc(GoodVersion, GoodCreatedAt, Arr(<<NullNode>>), Arr(<<>>))}
           \cup NonObjectDocs}

\* readable files with every content, files whose read fails, and no file
Files ==
  [present : {TRUE}, type : {"application/json", "text/plain"},
   name : {<<"flow", "json">>, <<"flow", "txt">>, <<"json">>},
   readable : {TRUE}, content : FileContents]
  \cup
  [present : {TRUE}, type : {"application/json", "text/plain"},
   name : {<<"flow", "json">>, <<"flow", "txt">>, <<"json">>},
   readable : {FALSE}, content : {NoContent}]
  \cup
  [present : {FALSE}, type : {""}, name : {<<>>}, readable : {FALSE}, content : {NoContent}]

\* the setup store after one menu item was dropped on the canvas
DroppedNodes ==
  <<createNode("node_1", NODE_TYPES.IMAGE, PosOK, [label |-> "New Image"],
               getNodeIOConfig(NODE_TYPES.IMAGE))>>

InitImport ==
  /\ rev \in {"legacy", "current"}
  /\ registry = registerAllNodes
  /\ nodes \in (IF rev = "legacy" THEN {MockNodes} ELSE {<<>>, DroppedNodes})
  /\ edges = IF rev = "legacy" THEN MockEdges ELSE <<>>
  /\ pending = <<>>
  /\ last = Edit
  /\ vcall = <<>>
  /\ icall = <<>>
  /\ rcall = <<>>
  /\ InitUi

\* importFlow(flowData, flowStore)
ImportCall(flowData) ==
  /\ LET result == importFlow(flowData, nodes, edges)
     IN  /\ icall' = <<[op |-> "importFlow", flowData |-> flowData,
                        nodes |-> nodes, edges |-> edges,
                        validation |-> validateFlow(flowData), result |-> result]>>
         /\ nodes' = result.nodes
         /\ edges' = result.edges
         /\ last' = [op |-> "import", success |-> result.success,
                     valid |-> validateFlow(flowData).valid]
  /\ UNCHANGED <<rev, registry, pending, vcall, rcall, ui>>

\* loadFlowFromFile(file, flowStore), up to the resolution of its promise
LoadCall(file) ==
  /\ LET result == loadFlowFromFile(file, nodes, edges)
     IN  /\ icall' = <<[op |-> "loadFlowFromFile", file |-> file,
                        nodes |-> nodes, edges |-> edges, result |-> result]>>
         /\ nodes' = result.nodes
         /\ edges' = result.edges
         /\ last' = [op |-> "import", success |-> result.success,
                     valid |-> result.success]
  /\ UNCHANGED <<rev, registry, pending, vcall, rcall, ui>>

\* exportFlow of the store, importFlow of the document into an empty store of
\* the same kind, exportFlow of that store
RoundTripCall(now, later) ==
  /\ LET flowData == exportFlow(nodes, edges, now)
         result == importFlow(flowData, <<>>, <<>>)
     IN  icall' = <<[op |-> "roundTrip", flowData |-> flowData,
                     nodes |-> nodes, edges |-> edges, result |-> result,
                     again |-> exportFlow(result.nodes, result.edges, later)]>>
  /\ UNCHANGED <<rev, registry, nodes, edges, pending, last, vcall, rcall, ui>>

NextImport ==
  \/ \E d \in CallDocs : ImportCall(d)
  \/ \E f \in Files : LoadCall(f)
  \/ \E now \in 1..MaxClock, later \in 1..MaxClock : RoundTripCall(now, later)

SpecImport == InitImport /\ [][NextImport]_vars


\* --------------------------------------- direct calls of the port resolver
PortIds == {"", "node-1", "node-9"}

\* the handle ids of BaseNode, and ids with more or fewer '-' separated parts
PortHandles ==
  {<<>>, <<"output">>, <<"output", "0">>, <<"output", "1">>, <<"output", "x">>,
   <<"output", "1px">>, <<"output", "1", "0">>, <<"output", "0", "1">>}

PortEdges ==
  {createEdge("edge-1", s, t, sh, th) :
     s \in PortIds, t \in PortIds, sh \in PortHandles, th \in {Input0, Input1}} \cup
  {createEdge("edge-1", s, t, sh, th) :
     s \in PortIds, t \in PortIds, sh \in {Output0}, th \in PortHandles}

\* one node, of a registered type or of a type register-nodes.js leaves out
PortNodes ==
  {<<>>} \cup
  {<<ArgNode("node-1", t)>> : t \in ArgTypes \cup {NODE_TYPES.TEXT_GENERATOR}}

InitPort ==
  /\ rev \in {"legacy", "current"}
  /\ registry = registerAllNodes
  /\ nodes \in PortNodes
  /\ edges = <<>>
  /\ pending = <<>>
  /\ last = Edit
  /\ vcall = <<>>
  /\ icall = <<>>
  /\ rcall = <<>>
  /\ InitUi

\* getEdgePortType(edge, flowStore.nodes, nodeRegistry, isSource)
PortCall(edge, isSource) ==
  /\ pcall' = <<[edge |-> edge, isSource |-> isSource,
                 result |-> getEdgePortType(edge, nodes, isSource)]>>
  /\ UNCHANGED <<rev, registry, nodes, edges, pending, last, vcall, icall, rcall,
               canvasVars, fileVars, groupVars, genVars, apiVars>>

NextPort == \E e \in PortEdges, isSource \in BOOLEAN : PortCall(e, isSource)

SpecPort == InitPort /\ [][NextPort]_vars

\* ------------------------------------------- direct calls of the registry
RegTypes == {Str(NODE_TYPES.IMAGE), Str(NODE_TYPES.PROMPT), Undefined, Str(""), Num("7")}

\* definitions with every field right or wrong, and a value that is no object
RegDefinitions ==
  {NodeDefinition(t, l, i, o, c) :
     t \in RegTypes, l \in {Str("Image"), Str("Other"), Undefined},
     i \in {Arr(<<PORT_TYPES.IMAGE>>), NotAnArray},
     o \in {Arr(<<>>), NotAnArray}, c \in {"ImageNode", ""}}
  \cup {[NodeDefinition(Undefined, Undefined, NotAnArray, NotAnArray, "")
           EXCEPT !.ty = "undefined"]}

UnregTypes ==
  {NODE_TYPES.IMAGE, NODE_TYPES.IMAGE_GENERATOR, NODE_TYPES.PROMPT, NODE_TYPES.DIFF}

InitRegistry ==
  /\ rev \in {"legacy", "current"}
  /\ registry \in {<<>>, registerAllNodes}
  /\ nodes = <<>>
  /\ edges = <<>>
  /\ pending = <<>>
  /\ last = Edit
  /\ vcall = <<>>
  /\ icall = <<>>
  /\ rcall = <<>>
  /\ InitUi

\* nodeRegistry.registerNode(definition)
RegisterCall(definition) ==
  /\ LET result == registerNode(registry, definition)
     IN  /\ rcall' = <<[op |-> "registerNode", definition |-> definition,
                        type |-> IF definition.type.ty = "string"
                                   THEN definition.type.s ELSE "",
                        before |-> registry, threw |-> result.threw,
                        error |-> result.error]>>
         /\ registry' = result.nodes
  /\ UNCHANGED <<rev, nodes, edges, pending, last, vcall, icall, ui>>

\* nodeRegistry.unregisterNode(type)
UnregisterCall(type) ==
  /\ LET result == unregisterNode(registry, type)
     IN  /\ rcall' = <<[op |-> "unregisterNode", definition |-> ImageDefinition,
                        type |-> type, before |-> registry, threw |-> FALSE,
                        error |-> ""]>>
         /\ registry' = result.nodes
  /\ UNCHANGED <<rev, nodes, edges, pending, last, vcall, icall, ui>>

\* nodeRegistry.clear()
ClearCall ==
  /\ rcall' = <<[op |-> "clear", definition |-> ImageDefinition, type |-> "",
                 before |-> registry, threw |-> FALSE, error |-> ""]>>
  /\ registry' = clear(registry)
  /\ UNCHANGED <<rev, nodes, edges, pending, last, vcall, icall, ui>>

NextRegistry ==
  \/ \E d \in RegDefinitions : RegisterCall(d)
  \/ \E t \in UnregTypes : UnregisterCall(t)
  \/ ClearCall

SpecRegistry == InitRegistry /\ [][NextRegistry]_vars

\* -------------------------------------------------------------- the canvas
\* A store node can carry fields that createNode does not set (selected,
\* parentNode, style); a field that is absent reads as undefined.
Has(node, field) == field \in DOMAIN node

IsSelected(node) == Has(node, "selected") /\ node.selected

SetField(node, field, value) == (field :> value) @@ node

DeleteField(node, field) == [k \in DOMAIN node \ {field} |-> node[k]]

\* the node items of the menu that are clicked and dragged
MenuTypes == {NODE_TYPES.PROMPT, NODE_TYPES.TEXT_GENERATOR}

\* createNodeAtPosition: <<>> when the type is not registered, else the node
\* that is pushed to the store
createNodeAtPosition(nodeType, now) ==
  LET nodeDef == getNodeDef(nodeType)
  IN  IF nodeDef = <<>> THEN <<>>
      ELSE <<createNode("node_" \o ToString(now), nodeType, PosOK,
                        [label |-> "New " \o nodeDef[1].label],
                        getNodeIOConfig(nodeType))>>

\* dragstart of a menu item; the browser runs one drag at a time
OnDragStart(nodeType) ==
  /\ drag = <<>>
  /\ draggedNodeType' = <<nodeType>>
  /\ isDragging' = TRUE
  /\ drag' = <<[kind |-> "item", type |-> nodeType]>>
  /\ last' = [op |-> "dragstart"]
  /\ UNCHANGED <<rev, registry, nodes, edges, pending, vcall, icall, rcall,
                 portVars, fileVars, groupVars, genVars, apiVars, clicks, copiedNode, imageReads>>

\* the drag ends outside the canvas: no handler of the composable runs
DragCancel ==
  /\ drag # <<>>
  /\ drag' = <<>>
  /\ last' = [op |-> "cancel"]
  /\ UNCHANGED <<rev, registry, nodes, edges, pending, vcall, icall, rcall,
                 portVars, fileVars, groupVars, genVars, apiVars, draggedNodeType, isDragging, clicks, copiedNode, imageReads>>

\* click on a menu item: the body runs from a timer 100 ms later
OnNodeItemClick(nodeType) ==
  /\ drag = <<>>
  /\ Len(clicks) < MaxWaiting
  /\ clicks' = Append(clicks, nodeType)
  /\ last' = [op |-> "menu"]
  /\ UNCHANGED <<rev, registry, nodes, edges, pending, vcall, icall, rcall,
                 portVars, fileVars, groupVars, genVars, apiVars, draggedNodeType, isDragging, drag, copiedNode, imageReads>>

\* the timer of the oldest click fires
ClickTimer(now) ==
  /\ clicks # <<>>
  /\ clicks' = Tail(clicks)
  /\ IF isDragging
       THEN /\ isDragging' = FALSE
            /\ last' = [op |-> "click", nodeType |-> Head(clicks), created |-> <<>>]
            /\ UNCHANGED nodes
       ELSE LET made == createNodeAtPosition(Head(clicks), now)
            IN  /\ Len(nodes) < MaxNodes
                /\ nodes' = nodes \o made
                /\ last' = [op |-> "click", nodeType |-> Head(clicks), created |-> made]
                /\ UNCHANGED isDragging
  /\ UNCHANGED <<rev, registry, edges, pending, vcall, icall, rcall,
                 portVars, fileVars, groupVars, genVars, apiVars, draggedNodeType, drag, copiedNode, imageReads>>

\* onDrop: files is "none", "image" (files[0] is an image) or "other"
onDrop(files, now) ==
  IF files = "image"
    THEN /\ imageReads < MaxWaiting
         /\ imageReads' = imageReads + 1
         /\ last' = [op |-> "drop", created |-> <<>>]
         /\ UNCHANGED <<nodes, draggedNodeType, isDragging>>
  ELSE IF draggedNodeType = <<>>
    THEN /\ last' = [op |-> "drop", created |-> <<>>]
         /\ UNCHANGED <<nodes, draggedNodeType, isDragging, imageReads>>
  ELSE LET made == createNodeAtPosition(draggedNodeType[1], now)
       IN  /\ Len(nodes) < MaxNodes
           /\ nodes' = nodes \o made
           /\ draggedNodeType' = <<>>
           /\ isDragging' = FALSE
           /\ last' = [op |-> "drop", created |-> made]
           /\ UNCHANGED imageReads

\* the dragged menu item is dropped on the canvas
DropOnCanvas(now) ==
  /\ drag # <<>>
  /\ onDrop("none", now)
  /\ drag' = <<>>
  /\ UNCHANGED <<rev, registry, edges, pending, vcall, icall, rcall,
                 portVars, fileVars, groupVars, genVars, apiVars, clicks, copiedNode>>

\* a file dragged from outside the page is dropped on the canvas
FileDropOnCanvas(files, now) ==
  /\ drag = <<>>
  /\ onDrop(files, now)
  /\ UNCHANGED <<rev, registry, edges, pending, vcall, icall, rcall,
                 portVars, fileVars, groupVars, genVars, apiVars, drag, clicks, copiedNode>>

\* reader.onload of handleImageFileDrop
ImageLoaded(now) ==
  LET newNode == createNode("node_" \o ToString(now), NODE_TYPES.IMAGE, PosOK,
                            [label |-> "Image"], getNodeIOConfig(NODE_TYPES.IMAGE))
  IN  /\ imageReads > 0
      /\ Len(nodes) < MaxNodes
      /\ imageReads' = imageReads - 1
      /\ nodes' = Append(nodes, newNode)
      /\ last' = [op |-> "file", created |-> <<newNode>>]
      /\ UNCHANGED <<rev, registry, edges, pending, vcall, icall, rcall,
                     portVars, fileVars, groupVars, genVars, apiVars, draggedNodeType, isDragging, drag, clicks, copiedNode>>

\* the canvas library selects or deselects a node
Select(i) ==
  /\ nodes' = [nodes EXCEPT ![i] = SetField(@, "selected", ~IsSelected(@))]
  /\ last' = [op |-> "select"]
  /\ UNCHANGED <<rev, registry, edges, pending, vcall, icall, rcall, ui>>

FirstSelected(ns) ==
  LET found == SelectSeq(ns, IsSelected)
  IN  IF found = <<>> THEN <<>> ELSE <<found[1]>>

\* Ctrl+C outside an editable field: handleCopy, or the copy is flushed
KeyCopy ==
  /\ copiedNode' = FirstSelected(nodes)
  /\ last' = [op |-> "copy"]
  /\ UNCHANGED <<rev, registry, nodes, edges, pending, vcall, icall, rcall,
                 portVars, fileVars, groupVars, genVars, apiVars, draggedNodeType, isDragging, drag, clicks, imageReads>>

\* Ctrl+V outside an editable field with a copied node: handlePaste
HandlePaste(now) ==
  /\ copiedNode # <<>>
  /\ Len(nodes) < MaxNodes
  /\ LET newNode == createNode("node_" \o ToString(now), copiedNode[1].type, PosOK,
                               [label |-> copiedNode[1].data.label],
                               getNodeIOConfig(copiedNode[1].type))
     IN  /\ nodes' = Append(nodes, newNode)
         /\ last' = [op |-> "paste", created |-> <<newNode>>]
  /\ UNCHANGED <<rev, registry, edges, pending, vcall, icall, rcall,
                 portVars, fileVars, groupVars, genVars, apiVars, draggedNodeType, isDragging, drag, clicks, copiedNode,
                 imageReads>>

InitCanvas ==
  /\ rev = "current"
  /\ registry = registerAllNodesGroup
  /\ nodes = <<>>
  /\ edges = <<>>
  /\ pending = <<>>
  /\ last = Edit
  /\ vcall = <<>>
  /\ icall = <<>>
  /\ rcall = <<>>
  /\ InitUi

NextCanvas ==
  \/ \E t \in MenuTypes : OnDragStart(t)
  \/ DragCancel
  \/ \E t \in MenuTypes : OnNodeItemClick(t)
  \/ \E now \in 1..MaxClock : ClickTimer(now)
  \/ \E now \in 1..MaxClock : DropOnCanvas(now)
  \/ \E files \in {"image", "other"}, now \in 1..MaxClock : FileDropOnCanvas(files, now)
  \/ \E now \in 1..MaxClock : ImageLoaded(now)
  \/ \E i \in 1..Len(nodes) : Select(i)
  \/ KeyCopy
  \/ \E now \in 1..MaxClock : HandlePaste(now)

SpecCanvas == InitCanvas /\ [][NextCanvas]_vars

\* ---------------------------------------------------- the import of files
\* setTimeout(() => flowStore.clearError(), 5000), in seconds
ClearDelay == 5

JsonFile(content) ==
  [present |-> TRUE, type |-> "application/json", name |-> <<"flow", "json">>,
   readable |-> TRUE, content |-> content]

DocumentA == Doc(GoodVersion, GoodCreatedAt, Arr(<<GoodNode>>), Arr(<<>>))

DocumentB ==
  Doc(GoodVersion, GoodCreatedAt, Arr(<<DocNode("node-2", NODE_TYPES.IMAGE_GENERATOR)>>),
      Arr(<<DocEdge("edge-2", "node-2", "node-2")>>))

\* two files with valid documents, a file that is not JSON text, a file whose
\* read fails, a file that is not a .json file, and no file
PickedFiles ==
  {JsonFile([parses |-> TRUE, value |-> DocumentA]),
   JsonFile([parses |-> TRUE, value |-> DocumentB]),
   JsonFile(NoContent),
   [JsonFile(NoContent) EXCEPT !.readable = FALSE],
   [JsonFile(NoContent) EXCEPT !.type = "text/plain", !.name = <<"flow", "txt">>],
   [present |-> FALSE, type |-> "", name |-> <<>>, readable |-> FALSE,
    content |-> NoContent]}

\* the file holds a document that validateFlow accepts
HoldsValidDocument(file) ==
  /\ file.present /\ file.readable /\ file.content.parses
  /\ ~validateFlow(file.content.value).threw
  /\ validateFlow(file.content.value).valid

\* the continuation of onFileSelected after loadFlowFromFile resolved
ShowFailure(result) ==
  IF result.success
    THEN UNCHANGED <<error, timers>>
    ELSE /\ error' = <<[message |-> IF result.error = "" THEN "Failed to import flow"
                                                          ELSE result.error,
                         at |-> clock]>>
         /\ timers' = timers \cup {clock + ClearDelay}

\* onFileSelected: nothing without a file; loadFlowFromFile resolves at once
\* for a file that is not JSON, else the FileReader starts to read
OnFileSelected(file) ==
  /\ IF ~file.present
       THEN /\ last' = [op |-> "pick"]
            /\ UNCHANGED <<error, timers, reads>>
     ELSE IF file.type # "application/json" /\ ~EndsWithJson(file.name)
       THEN /\ ShowFailure(loadFlowFromFile(file, nodes, edges))
            /\ last' = [op |-> "pick"]
            /\ UNCHANGED reads
     ELSE /\ Len(reads) < MaxReads
          /\ reads' =
               Append([k \in 1..Len(reads) |->
                         [reads[k] EXCEPT !.overlapsValid = @ \/ HoldsValidDocument(file)]],
                      [file |-> file,
                       overlapsValid |->
                         \E k \in 1..Len(reads) : HoldsValidDocument(reads[k].file)])
          /\ last' = [op |-> "pick"]
          /\ UNCHANGED <<error, timers>>
  /\ UNCHANGED <<rev, registry, nodes, edges, pending, vcall, icall, rcall,
                 portVars, canvasVars, groupVars, genVars, apiVars, clock>>

\* reader.onload or reader.onerror of the k-th read in flight, then the
\* continuation of onFileSelected
ReadDone(k) ==
  LET file == reads[k].file
      result == loadFlowFromFile(file, nodes, edges)
  IN  /\ nodes' = result.nodes
      /\ edges' = result.edges
      /\ ShowFailure(result)
      /\ reads' = [i \in 1..(Len(reads) - 1) |-> IF i < k THEN reads[i] ELSE reads[i + 1]]
      /\ last' = [op |-> "read", file |-> file, success |-> result.success,
                  overlapsValid |-> reads[k].overlapsValid]
      /\ UNCHANGED <<rev, registry, pending, vcall, icall, rcall,
                     portVars, canvasVars, groupVars, genVars, apiVars, clock>>

\* a second passes; a timer that is due runs before the next second
Tick ==
  /\ clock < MaxTime
  /\ \A t \in timers : t > clock
  /\ clock' = clock + 1
  /\ last' = [op |-> "tick"]
  /\ UNCHANGED <<rev, registry, nodes, edges, pending, vcall, icall, rcall,
                 portVars, canvasVars, groupVars, genVars, apiVars, error, timers, reads>>

\* a timer set by onFileSelected runs flowStore.clearError()
ClearTimer(t) ==
  /\ t <= clock
  /\ error' = <<>>
  /\ timers' = timers \ {t}
  /\ last' = [op |-> "timer"]
  /\ UNCHANGED <<rev, registry, nodes, edges, pending, vcall, icall, rcall,
                 portVars, canvasVars, groupVars, genVars, apiVars, clock, reads>>

InitFiles ==
  /\ rev \in {"legacy", "current"}
  /\ registry = registerAllNodes
  /\ nodes = IF rev = "legacy" THEN MockNodes ELSE <<>>
  /\ edges = IF rev = "legacy" THEN MockEdges ELSE <<>>
  /\ pending = <<>>
  /\ last = Edit
  /\ vcall = <<>>
  /\ icall = <<>>
  /\ rcall = <<>>
  /\ InitUi

NextFiles ==
  \/ \E file \in PickedFiles : OnFileSelected(file)
  \/ \E k \in 1..Len(reads) : ReadDone(k)
  \/ Tick
  \/ \E t \in timers : ClearTimer(t)

SpecFiles == InitFiles /\ [][NextFiles]_vars

\* ------------------------------------------------------------------ groups
\* setTimeout(() => flowStore.clearError(), 3000), in seconds
GroupErrorDelay == 3

\* node.parentNode is set: ids are strings that are not empty
HasParent(node) == Has(node, "parentNode")

SelectedIndices == {i \in 1..Len(nodes) : IsSelected(nodes[i])}

\* the group node of handleGroup with its style
GroupNode(parentId) ==
  SetField(createNode(parentId, NODE_TYPES.GROUP, PosOK, [label |-> "Group"],
                      getNodeIOConfig(NODE_TYPES.GROUP)),
           "style", "box")

\* handleGroup up to await nextTick()
HandleGroup(now) ==
  /\ grouping = <<>>
  /\ IF Cardinality(SelectedIndices) < 2
       THEN /\ last' = [op |-> "group", nested |-> FALSE]
            /\ UNCHANGED <<nodes, error, timers, grouping>>
     ELSE IF \E i \in SelectedIndices : HasParent(nodes[i])
       THEN /\ error' = <<[message |-> "Cannot create nested groups", at |-> clock]>>
            /\ timers' = timers \cup {clock + GroupErrorDelay}
            /\ last' = [op |-> "group", nested |-> TRUE]
            /\ UNCHANGED <<nodes, grouping>>
     ELSE /\ Len(nodes) < MaxGroupNodes
          /\ nodes' = Append(nodes, GroupNode("group_" \o ToString(now)))
          /\ grouping' = <<[parentId |-> "group_" \o ToString(now),
                            selectedNodes |-> SelectedIndices]>>
          /\ last' = [op |-> "group", nested |-> FALSE]
          /\ UNCHANGED <<error, timers>>
  /\ UNCHANGED <<rev, registry, edges, pending, vcall, icall, rcall,
                 portVars, canvasVars, clock, reads, genVars, apiVars>>

\* handleGroup after await nextTick(): a microtask, which runs before any
\* other handler
GroupResume ==
  /\ grouping # <<>>
  /\ nodes' = [i \in 1..Len(nodes) |->
                 IF i \in grouping[1].selectedNodes
                   THEN SetField(SetField(nodes[i], "parentNode", grouping[1].parentId),
                                 "selected", FALSE)
                   ELSE nodes[i]]
  /\ grouping' = <<>>
  /\ last' = [op |-> "grouped"]
  /\ UNCHANGED <<rev, registry, edges, pending, vcall, icall, rcall,
                 portVars, canvasVars, fileVars, genVars, apiVars>>

\* no other handler runs while the microtask of handleGroup is waiting
NoMicrotask == grouping = <<>>

\* the first group of the store, other than the node, that has a style and
\* whose box holds the centre of the node; hit is the set of the positions
\* in the store of the nodes whose box holds it
FirstGroupHit(i, hit) ==
  LET matches == {j \in hit \cap (1..Len(nodes)) :
                    /\ nodes[j].type = NODE_TYPES.GROUP
                    /\ nodes[j].id # nodes[i].id
                    /\ Has(nodes[j], "style")}
  IN  IF matches = {} THEN <<>>
      ELSE <<CHOOSE j \in matches : \A k \in matches : j <= k>>

\* the drag stop handler for the i-th node: outside is whether the node lies
\* out of the box of its parent
OnNodeDragStop(i, hit, outside) ==
  /\ NoMicrotask
  /\ LET node == nodes[i]
         parentNode == IF HasParent(node) THEN FindNode(nodes, node.parentNode) ELSE <<>>
         group == FirstGroupHit(i, hit)
     IN  IF node.type = NODE_TYPES.GROUP THEN UNCHANGED nodes
         ELSE IF HasParent(node)
           THEN IF parentNode = <<>> \/ ~Has(parentNode[1], "style") THEN UNCHANGED nodes
                ELSE IF outside
                  THEN nodes' = [nodes EXCEPT ![i] = DeleteField(@, "parentNode")]
                  ELSE UNCHANGED nodes
         ELSE IF group = <<>> THEN UNCHANGED nodes
         ELSE nodes' = [nodes EXCEPT ![i] = SetField(@, "parentNode", nodes[group[1]].id)]
  /\ last' = [op |-> "dragstop"]
  /\ UNCHANGED <<rev, registry, edges, pending, vcall, icall, rcall, ui>>

\* the node items clicked here: a plain node and the Group item
GroupMenuTypes == {NODE_TYPES.PROMPT, NODE_TYPES.GROUP}

InitGroup ==
  /\ rev \in {"legacy", "current"}
  /\ registry = registerAllNodesGroup
  /\ nodes = IF rev = "legacy" THEN MockNodes ELSE <<>>
  /\ edges = IF rev = "legacy" THEN MockEdges ELSE <<>>
  /\ pending = <<>>
  /\ last = Edit
  /\ vcall = <<>>
  /\ icall = <<>>
  /\ rcall = <<>>
  /\ InitUi

NextGroup ==
  \/ \E now \in 1..MaxClock : HandleGroup(now)
  \/ GroupResume
  \/ \E t \in GroupMenuTypes : NoMicrotask /\ OnNodeItemClick(t)
  \/ \E now \in 1..MaxClock : NoMicrotask /\ ClickTimer(now)
  \/ \E i \in 1..Len(nodes) : NoMicrotask /\ Select(i)
  \/ \E i \in 1..Len(nodes), hit \in SUBSET (1..Len(nodes)), outside \in BOOLEAN :
       OnNodeDragStop(i, hit, outside)
  \/ \E i \in 1..Len(nodes) : NoMicrotask /\ RemoveNode(nodes[i].id)
  \/ NoMicrotask /\ ImportFlow(DocumentA)

SpecGroup == InitGroup /\ [][NextGroup]_vars

\* -------------------------------------------------------------- generators
\* what the textarea or the connected prompt node holds
Prompts == {"", " ", "a cat"}

\* String.prototype.trim
Trim(text) == IF text = " " THEN "" ELSE text

\* a generator that starts a request whether or not one is in flight
handleGenerateStartsAnyway(kind, component) == Trim(component.prompt) # ""

\* whether handleGenerate gets to call the service: the prompt is not blank
\* and isGenerating is false
handleGenerateStarts(kind, component) ==
  IF kind = NODE_TYPES.IMAGE_GENERATOR
    THEN ~(Trim(component.prompt) = "" \/ component.isGenerating)
    ELSE ~component.isGenerating /\ ~(component.prompt = "" \/ Trim(component.prompt) = "")

\* the prompt changes
EditPrompt(n, text) ==
  /\ generators[n].prompt # text
  /\ generators' = [generators EXCEPT ![n].prompt = text]
  /\ last' = [op |-> "prompt"]
  /\ UNCHANGED <<rev, registry, nodes, edges, pending, vcall, icall, rcall,
                 portVars, canvasVars, fileVars, groupVars, apiVars>>

\* handleGenerate up to the await of the service call; the text generator
\* with a blank prompt throws, shows the error and resets isGenerating
HandleGenerate(n) ==
  LET kind == GeneratorKinds[n]
      component == generators[n]
  IN  /\ component.requests < MaxRequests
      /\ IF handleGenerateStarts(kind, component)
           THEN generators' =
                  [generators EXCEPT ![n].isGenerating = TRUE,
                                     ![n].requests = @ + 1,
                                     ![n].error = IF kind = NODE_TYPES.TEXT_GENERATOR
                                                    THEN <<>> ELSE @]
         ELSE IF kind = NODE_TYPES.TEXT_GENERATOR /\ ~component.isGenerating
           THEN generators' =
                  [generators EXCEPT ![n].isGenerating = FALSE,
                                     ![n].error = <<"Please provide a prompt">>]
         ELSE UNCHANGED generators
      /\ last' = [op |-> "generate", node |-> n,
                  started |-> handleGenerateStarts(kind, component)]
      /\ UNCHANGED <<rev, registry, nodes, edges, pending, vcall, icall, rcall,
                     portVars, canvasVars, fileVars, groupVars, apiVars>>

\* the service call of one request settles: handleGenerate after the await,
\* with catch and finally
RequestEnds(n, outcome) ==
  LET kind == GeneratorKinds[n]
      message == IF outcome = "timeout" THEN "Request timeout" ELSE "API request failed"
  IN  /\ generators[n].requests > 0
      /\ generators' =
           [generators EXCEPT
              ![n].requests = @ - 1,
              ![n].isGenerating = FALSE,
              ![n].generated = IF outcome = "success" THEN TRUE ELSE @,
              ![n].error = IF outcome = "success"
                             THEN (IF kind = NODE_TYPES.TEXT_GENERATOR THEN <<>> ELSE @)
                             ELSE <<message>>,
              ![n].errorTimer = IF outcome # "success" /\ kind = NODE_TYPES.IMAGE_GENERATOR
                                  THEN TRUE ELSE @]
      /\ last' = [op |-> "ended", node |-> n, outcome |-> outcome]
      /\ UNCHANGED <<rev, registry, nodes, edges, pending, vcall, icall, rcall,
                     portVars, canvasVars, fileVars, groupVars, apiVars>>

\* the timer of the image generator clears the error it shows
ErrorTimer(n) ==
  /\ generators[n].errorTimer
  /\ generators' = [generators EXCEPT ![n].errorTimer = FALSE, ![n].error = <<>>]
  /\ last' = [op |-> "timer"]
  /\ UNCHANGED <<rev, registry, nodes, edges, pending, vcall, icall, rcall,
                 portVars, canvasVars, fileVars, groupVars, apiVars>>

InitGenerators ==
  /\ rev = "current"
  /\ registry = registerAllNodesGroup
  /\ nodes = <<>>
  /\ edges = <<>>
  /\ pending = <<>>
  /\ last = Edit
  /\ vcall = <<>>
  /\ icall = <<>>
  /\ rcall = <<>>
  /\ InitUi

NextGenerators ==
  \/ \E n \in DOMAIN GeneratorKinds, text \in Prompts : EditPrompt(n, text)
  \/ \E n \in DOMAIN GeneratorKinds : HandleGenerate(n)
  \/ \E n \in DOMAIN GeneratorKinds, outcome \in {"success", "error", "timeout"} :
       RequestEnds(n, outcome)
  \/ \E n \in DOMAIN GeneratorKinds : ErrorTimer(n)

SpecGenerators == InitGenerators /\ [][NextGenerators]_vars

\* --------------------------------------------------- the prediction service
\* pollInterval = 3500 and maxWaitTime = 180000 ms, in half seconds
PollInterval == 7
MaxWaitTime == 360

Statuses == {"starting", "processing", "succeeded", "failed", "canceled"}

\* what a request comes back with: a response that is not ok, or one whose
\* body is a prediction with a status, with or without urls.get
Responses ==
  {[ok |-> FALSE, status |-> "", hasGetUrl |-> FALSE]} \cup
  [ok : {TRUE}, status : Statuses, hasGetUrl : BOOLEAN]

Threw(message) == [api EXCEPT !.phase = "threw", !.error = message]

Returned(response) ==
  [api EXCEPT !.phase = "returned",
              !.prediction = <<[status |-> response.status]>>]

\* _callApi up to the await of the POST
CallApi ==
  /\ api.phase = "idle"
  /\ api' = [api EXCEPT !.phase = "posting"]
  /\ last' = [op |-> "callApi"]
  /\ UNCHANGED <<rev, registry, nodes, edges, pending, vcall, icall, rcall,
                 portVars, canvasVars, fileVars, groupVars, genVars>>

\* the POST is aborted by the timer of _callApi
PostAborted ==
  /\ api.phase = "posting"
  /\ api' = Threw("Request timeout")
  /\ last' = [op |-> "callApi"]
  /\ UNCHANGED <<rev, registry, nodes, edges, pending, vcall, icall, rcall,
                 portVars, canvasVars, fileVars, groupVars, genVars>>

\* the POST comes back: _callApi from clearTimeout on, and _pollPrediction
\* up to its first status request when the prediction has urls.get
PostResponse(response) ==
  /\ api.phase = "posting"
  /\ api' = IF ~response.ok THEN Threw("API request failed")
            ELSE IF response.status = "succeeded" THEN Returned(response)
            ELSE IF response.hasGetUrl
              THEN [api EXCEPT !.phase = "fetching", !.startTime = api.now]
            ELSE Returned(response)
  /\ last' = [op |-> "callApi"]
  /\ UNCHANGED <<rev, registry, nodes, edges, pending, vcall, icall, rcall,
                 portVars, canvasVars, fileVars, groupVars, genVars>>

\* a status request comes back after d half seconds: _pollPrediction from
\* the response to the return, the throw or the start of the wait
PollResponse(d, response) ==
  /\ api.phase = "fetching"
  /\ api' = LET later == [api EXCEPT !.now = @ + d]
            IN  IF ~response.ok
                  THEN [later EXCEPT !.phase = "threw", !.error = "Polling failed"]
                ELSE IF response.status = "succeeded"
                  THEN [later EXCEPT !.phase = "returned",
                                     !.prediction = <<[status |-> response.status]>>]
                ELSE IF response.status = "failed"
                  THEN [later EXCEPT !.phase = "threw", !.error = "Prediction failed"]
                ELSE IF response.status = "canceled"
                  THEN [later EXCEPT !.phase = "threw",
                                     !.error = "Prediction was canceled"]
                ELSE [later EXCEPT !.phase = "sleeping"]
  /\ last' = [op |-> "poll"]
  /\ UNCHANGED <<rev, registry, nodes, edges, pending, vcall, icall, rcall,
                 portVars, canvasVars, fileVars, groupVars, genVars>>

\* the wait of pollInterval is over: the check of the elapsed time at the top
\* of the loop, then the next status request
PollWake ==
  /\ api.phase = "sleeping"
  /\ api' = LET later == [api EXCEPT !.now = @ + PollInterval]
            IN  IF later.now - later.startTime > MaxWaitTime
                  THEN [later EXCEPT !.phase = "threw",
                                     !.error = "Prediction polling timeout after 3 minutes"]
                  ELSE [later EXCEPT !.phase = "fetching"]
  /\ last' = [op |-> "poll"]
  /\ UNCHANGED <<rev, registry, nodes, edges, pending, vcall, icall, rcall,
                 portVars, canvasVars, fileVars, groupVars, genVars>>

InitApi ==
  /\ rev = "current"
  /\ registry = registerAllNodesGroup
  /\ nodes = <<>>
  /\ edges = <<>>
  /\ pending = <<>>
  /\ last = Edit
  /\ vcall = <<>>
  /\ icall = <<>>
  /\ rcall = <<>>
  /\ InitUi

NextApi ==
  \/ CallApi
  \/ PostAborted
  \/ \E response \in Responses : PostResponse(response)
  \/ \E d \in 0..MaxFetchTime, response \in Responses : PollResponse(d, response)
  \/ PollWake

SpecApi == InitApi /\ [][NextApi]_vars

\* ------------------------------------------------------------------ claims
Tags(ports) == {ports[i] : i \in 1..Len(ports)}

NodeIdsOf(ns) == {ns[i].id : i \in 1..Len(ns)}

\* an edge of the store with the endpoints of the connection
SamePair(connection) ==
  \E i \in 1..Len(edges) :
    edges[i].source = connection.source /\ edges[i].target = connection.target

BothNodesGiven(call) == call.sourceNode # <<>> /\ call.targetNode # <<>>

\* C1: a candidate whose source id equals its target id, with both endpoint
\* nodes given, is refused with the self-connection reason, whatever the type
\* of the node, its ports and the existing edges.
C1_SelfConnectionRefused ==
  \A k \in 1..Len(vcall) :
    (BothNodesGiven(vcall[k]) /\ vcall[k].connection.source = vcall[k].connection.target)
      => vcall[k].result = Invalid("Cannot connect a node to itself")

\* a self-connection on a node that has both an output and an input of the
\* same tag, with an edge already in the store, was validated
C1_Witness ==
  /\ vcall # <<>>
  /\ BothNodesGiven(vcall[1])
  /\ vcall[1].connection.source = vcall[1].connection.target
  /\ vcall[1].sourceNode[1].type = NODE_TYPES.IMAGE_GENERATOR
  /\ Len(edges) > 0
  /\ ~vcall[1].result.valid

\* C2: two existing nodes with different ids and registered types and no edge
\* between them connect exactly when the declared outputs of the source type
\* and the declared inputs of the target type share a tag; the refusal names
\* the side without ports, or else the missing compatible port.
C2_ValidIffSharedTag ==
  \A k \in 1..Len(vcall) :
    LET call == vcall[k]
        c == call.connection
    IN  (/\ BothNodesGiven(call)
         /\ c.source # c.target
         /\ hasNode(call.sourceNode[1].type)
         /\ hasNode(call.targetNode[1].type)
         /\ ~SamePair(c))
        => LET outs == getNodeDef(call.sourceNode[1].type)[1].outputs
               ins == getNodeDef(call.targetNode[1].type)[1].inputs
           IN  /\ call.result.valid <=> (Tags(outs) \cap Tags(ins) # {})
               /\ (~call.result.valid /\ outs # <<>> /\ ins # <<>>)
                    => call.result.reason = "Nodes have no compatible ports"
               /\ (~call.result.valid /\ outs = <<>> /\ ins # <<>>)
                    => call.result.reason = "Source node has no output ports"
               /\ (~call.result.valid /\ outs # <<>> /\ ins = <<>>)
                    => call.result.reason = "Target node has no input ports"
               /\ (~call.result.valid /\ outs = <<>> /\ ins = <<>>)
                    => call.result.reason \in {"Source node has no output ports",
                                               "Target node has no input ports"}

\* a prompt node was accepted as the source of an image generator: the shared
\* tag is the second input of the target
C2_Witness ==
  /\ vcall # <<>>
  /\ BothNodesGiven(vcall[1])
  /\ vcall[1].connection.source # vcall[1].connection.target
  /\ vcall[1].sourceNode[1].type = NODE_TYPES.PROMPT
  /\ vcall[1].targetNode[1].type = NODE_TYPES.IMAGE_GENERATOR
  /\ ~SamePair(vcall[1].connection)
  /\ vcall[1].result.valid

\* C3: a candidate whose (source, target) pair is already the pair of an
\* existing edge is refused, whatever the handles of the two.
C3_DuplicatePairRefused ==
  \A k \in 1..Len(vcall) :
    SamePair(vcall[k].connection) => ~vcall[k].result.valid

\* a candidate between compatible nodes was refused as a duplicate of an edge
\* that uses other handles
C3_Witness ==
  /\ vcall # <<>>
  /\ vcall[1].result = Invalid("This connection already exists")
  /\ \A i \in 1..Len(edges) :
       edges[i].sourceHandle # vcall[1].connection.sourceHandle /\
       edges[i].targetHandle # vcall[1].connection.targetHandle

\* C4: the checks run in the order node existence, self-connection, node-type
\* compatibility, duplicate connection, and the reason returned is the one of
\* the first check that fails, also when later checks fail as well.
C4_FirstFailingCheck ==
  \A k \in 1..Len(vcall) :
    LET call == vcall[k]
        c == call.connection
        r == call.result
    IN  IF call.sourceNode = <<>> THEN r = Invalid("Source node not found")
        ELSE IF call.targetNode = <<>> THEN r = Invalid("Target node not found")
        ELSE IF c.source = c.target THEN r = Invalid("Cannot connect a node to itself")
        ELSE IF ~NodesCompatibility(call.sourceNode, call.targetNode).valid
          THEN r = NodesCompatibility(call.sourceNode, call.targetNode)
        ELSE IF SamePair(c) THEN r = Invalid("This connection already exists")
        ELSE r = Valid

\* incompatible node types and a duplicate pair at once: the compatibility
\* reason was returned
C4_Witness ==
  /\ vcall # <<>>
  /\ BothNodesGiven(vcall[1])
  /\ vcall[1].connection.source # vcall[1].connection.target
  /\ SamePair(vcall[1].connection)
  /\ ~vcall[1].result.valid
  /\ vcall[1].result.reason # "This connection already exists"

\* C5: for each edge the port-type tag resolved at its sourceHandle on its
\* source node equals the tag resolved at its targetHandle on its target node.
C5_EdgePortTypesMatch ==
  \A i \in 1..Len(edges) :
    getEdgePortType(edges[i], nodes, TRUE) = getEdgePortType(edges[i], nodes, FALSE)

\* C6: no two edges of the store share the same (source, target) pair.
C6_NoDuplicatePair ==
  \A i \in 1..Len(edges), j \in 1..Len(edges) :
    (edges[i].source = edges[j].source /\ edges[i].target = edges[j].target) => i = j

\* C7: every edge's source and target are ids of nodes of the store and differ.
C7_EndpointsExistAndDiffer ==
  \A i \in 1..Len(edges) :
    /\ edges[i].source \in NodeIdsOf(nodes)
    /\ edges[i].target \in NodeIdsOf(nodes)
    /\ edges[i].source # edges[i].target

C9_InvalidImportChangesNothing ==
  [][(last'.op = "import" /\ ~last'.valid)
       => (~last'.success /\ nodes' = nodes /\ edges' = edges)]_vars

\* an invalid document was imported into a store that holds nodes and an edge
C9_Witness ==
  /\ last.op = "import"
  /\ ~last.valid
  /\ ~last.success
  /\ Len(nodes) > 0
  /\ Len(edges) > 0

\* C10: whenever importFlow returns success = false, the nodes and edges of
\* the store are as before the call.
C10_FailedImportChangesNothing ==
  [][(last'.op = "import" /\ ~last'.success)
       => (nodes' = nodes /\ edges' = edges)]_vars

\* C11: after importFlow returned success = true the nodes of the store are
\* the nodes of the document and its edges the edges of the document, field by
\* field and in document order; nothing else is in the store.
C11_SuccessReplaces ==
  \A k \in 1..Len(icall) :
    (icall[k].op = "importFlow" /\ icall[k].result.success)
      => LET ns == icall[k].flowData.nodes.items
             es == icall[k].flowData.edges.items
         IN  /\ Len(nodes) = Len(ns)
             /\ Len(edges) = Len(es)
             /\ \A i \in 1..Len(ns) :
                  /\ nodes[i].id = ns[i].id.s
                  /\ nodes[i].type = ns[i].type.s
                  /\ nodes[i].position = ns[i].position
                  /\ nodes[i].data = ns[i].data
                  /\ nodes[i].io = ns[i].io
             /\ \A i \in 1..Len(es) :
                  /\ edges[i].id = es[i].id.s
                  /\ edges[i].source = es[i].source.s
                  /\ edges[i].target = es[i].target.s
                  /\ edges[i].sourceHandle = es[i].sourceHandle
                  /\ edges[i].targetHandle = es[i].targetHandle

\* a document with two nodes and two edges was imported with success into a
\* store that held three other nodes and an edge
C11_Witness ==
  /\ icall # <<>>
  /\ icall[1].op = "importFlow"
  /\ icall[1].result.success
  /\ Len(icall[1].nodes) = 3
  /\ Len(icall[1].edges) = 1
  /\ Len(icall[1].flowData.nodes.items) = 2
  /\ Len(icall[1].flowData.edges.items) = 2
  /\ icall[1].flowData.edges.items[1] = SelfEdge

\* C12: importing exportFlow(G) into an empty store succeeds and gives nodes
\* and edges equal to those of G field by field, and the export of that store
\* equals exportFlow(G) except for createdAt.
C12_RoundTrip ==
  \A k \in 1..Len(icall) :
    icall[k].op = "roundTrip"
      => /\ icall[k].result.success
         /\ icall[k].result.nodes = icall[k].nodes
         /\ icall[k].result.edges = icall[k].edges
         /\ [icall[k].again EXCEPT !.createdAt = icall[k].flowData.createdAt]
              = icall[k].flowData

\* the checks of validateFlow that a document violates: <<kind, index, field>>
ViolatedChecks(d) ==
  IF d.ty # "object" THEN {<<"document", 0, "object">>}
  ELSE
    {<<"document", 0, f>> : f \in {g \in {"version"} : NotAString(d.version)}}
    \cup {<<"document", 0, f>> : f \in {g \in {"createdAt"} : NotAString(d.createdAt)}}
    \cup {<<"document", 0, f>> : f \in {g \in {"nodes"} : ~d.nodes.isArray}}
    \cup {<<"document", 0, f>> : f \in {g \in {"edges"} : ~d.edges.isArray}}
    \cup {<<"node", i, "id">> : i \in {j \in 1..Len(d.nodes.items) :
            d.nodes.items[j].id.ty # "string" \/ d.nodes.items[j].id.s = ""}}
    \cup {<<"node", i, "type">> : i \in {j \in 1..Len(d.nodes.items) :
            d.nodes.items[j].type.ty # "string" \/ d.nodes.items[j].type.s = ""}}
    \cup {<<"node", i, "position">> : i \in {j \in 1..Len(d.nodes.items) :
            d.nodes.items[j].position # PosOK}}
    \cup {<<"node", i, "data">> : i \in {j \in 1..Len(d.nodes.items) :
            d.nodes.items[j].data.ty # "object"}}
    \cup {<<"edge", i, "id">> : i \in {j \in 1..Len(d.edges.items) :
            d.edges.items[j].id.ty # "string" \/ d.edges.items[j].id.s = ""}}
    \cup {<<"edge", i, "source">> : i \in {j \in 1..Len(d.edges.items) :
            d.edges.items[j].source.ty # "string" \/ d.edges.items[j].source.s = ""}}
    \cup {<<"edge", i, "target">> : i \in {j \in 1..Len(d.edges.items) :
            d.edges.items[j].target.ty # "string" \/ d.edges.items[j].target.s = ""}}

C14_NoExceptionEscapes ==
  \A k \in 1..Len(icall) :
    icall[k].op = "importFlow"
      => (~icall[k].validation.threw /\ ~icall[k].result.threw)

\* C15: for a file that is given, loadFlowFromFile resolves with 'File must be
\* a JSON file' exactly when the file is neither typed nor named as JSON, with
\* 'Failed to read file' exactly when the read of a JSON file fails, with
\* 'Invalid JSON format' exactly when the text read does not parse, and the
\* store is unchanged in these three outcomes.
C15_LoadOutcomes ==
  \A k \in 1..Len(icall) :
    (icall[k].op = "loadFlowFromFile" /\ icall[k].file.present)
      => LET file == icall[k].file
             result == icall[k].result
             isJson == file.type = "application/json" \/ EndsWithJson(file.name)
         IN  /\ (result.error = "File must be a JSON file") <=> ~isJson
             /\ (result.error = "Failed to read file") <=> (isJson /\ ~file.readable)
             /\ (result.error = "Invalid JSON format")
                  <=> (isJson /\ file.readable /\ ~file.content.parses)
             /\ (result.error \in {"File must be a JSON file", "Failed to read file",
                                   "Invalid JSON format"})
                  => (~result.success /\ nodes = icall[k].nodes /\ edges = icall[k].edges)

InvalidDefinitionErrors ==
  {"Node definition must be an object",
   "Node definition must have a valid \"type\" string",
   "Node definition must have a valid \"label\" string",
   "Node definition must have an \"inputs\" array",
   "Node definition must have an \"outputs\" array",
   "Node definition must have a \"component\""}

\* the definition lacks a required field or has it in the wrong shape
LacksField(definition) ==
  \/ definition.ty # "object"
  \/ definition.type.ty # "string" \/ definition.type.s = ""
  \/ definition.label.ty # "string" \/ definition.label.s = ""
  \/ ~definition.inputs.isArray
  \/ ~definition.outputs.isArray
  \/ definition.component = ""

\* the definition names, with a non-empty string, a type the registry held
NamesRegisteredType(call) ==
  /\ call.definition.ty = "object"
  /\ call.definition.type.ty = "string"
  /\ call.definition.type.s # ""
  /\ \E i \in 1..Len(call.before) : call.before[i].type = call.definition.type.s

\* C16: registering a definition whose type is present throws the duplicate
\* error and leaves every entry, and the order of the entries, as before.
C16_DuplicateTypeThrows ==
  \A k \in 1..Len(rcall) :
    (rcall[k].op = "registerNode" /\ NamesRegisteredType(rcall[k]))
      => /\ rcall[k].threw
         /\ rcall[k].error
              = "Node type \"" \o rcall[k].definition.type.s \o "\" is already registered"
         /\ registry = rcall[k].before

\* a complete definition with another label was registered for a type that is
\* present
C16_Witness ==
  /\ rcall # <<>>
  /\ rcall[1].op = "registerNode"
  /\ NamesRegisteredType(rcall[1])
  /\ ~LacksField(rcall[1].definition)
  /\ \E i \in 1..Len(registry) :
       registry[i].type = rcall[1].definition.type.s /\
       registry[i].label # rcall[1].definition.label.s
  /\ rcall[1].threw

\* C17 as stated: every definition that lacks a required field makes
\* registerNode throw one of the invalid-definition errors and leaves the
\* registry as before.
C17_InvalidDefinitionThrows ==
  \A k \in 1..Len(rcall) :
    (rcall[k].op = "registerNode" /\ LacksField(rcall[k].definition))
      => /\ rcall[k].threw
         /\ rcall[k].error \in InvalidDefinitionErrors
         /\ registry = rcall[k].before

\* C17 amended: every definition that lacks a required field makes
\* registerNode throw and leaves the registry as before; the error is the
\* duplicate error when the type is a string that is already registered, and
\* one of the invalid-definition errors otherwise.
C17_InvalidOrDuplicateThrows ==
  \A k \in 1..Len(rcall) :
    (rcall[k].op = "registerNode" /\ LacksField(rcall[k].definition))
      => /\ rcall[k].threw
         /\ registry = rcall[k].before
         /\ IF NamesRegisteredType(rcall[k])
              THEN rcall[k].error = "Node type \"" \o rcall[k].definition.type.s
                                      \o "\" is already registered"
              ELSE rcall[k].error \in InvalidDefinitionErrors

\* a definition of a new type that only lacks its component was refused by a
\* registry that holds entries
C17_Witness ==
  /\ rcall # <<>>
  /\ rcall[1].op = "registerNode"
  /\ rcall[1].definition.component = ""
  /\ rcall[1].definition.label = Str("Other")
  /\ rcall[1].definition.inputs.isArray
  /\ rcall[1].definition.outputs.isArray
  /\ rcall[1].definition.type = Str(NODE_TYPES.IMAGE)
  /\ ~NamesRegisteredType(rcall[1])
  /\ Len(registry) > 0
  /\ rcall[1].threw

\* every type a call can name
AllTypes == {NODE_TYPES.IMAGE, NODE_TYPES.IMAGE_GENERATOR, NODE_TYPES.PROMPT,
             NODE_TYPES.DIFF, ""}

\* C18: after any sequence of register, unregister and clear calls, for every
\* type, hasNode is true exactly when getNodeDef is not null, and getNodeDef
\* is then the entry listNodes has for the type.
C18_HasIffDefined ==
  \A t \in AllTypes :
    /\ hasNode(t) <=> getNodeDef(t) # <<>>
    /\ getNodeDef(t) # <<>>
         => \E i \in 1..Len(listNodes) :
              listNodes[i].type = t /\ listNodes[i] = getNodeDef(t)[1]
    /\ getNodeDef(t) = <<>> => \A i \in 1..Len(listNodes) : listNodes[i].type # t

\* after an unregister call the registry holds the image type, whose entry
\* has no input ports, and lacks the prompt type
C18_Witness ==
  /\ rcall # <<>>
  /\ rcall[1].op = "unregisterNode"
  /\ hasNode(NODE_TYPES.IMAGE)
  /\ getNodeDef(NODE_TYPES.IMAGE)[1].inputs = <<>>
  /\ ~hasNode(NODE_TYPES.PROMPT)

\* C19: listNodes holds every registered definition once, in the order of the
\* registrations: a registration adds its entry at the end, an unregistration
\* removes one entry and keeps the order of the others.
C19_ListInInsertionOrder ==
  /\ \A i \in 1..Len(listNodes), j \in 1..Len(listNodes) :
       listNodes[i].type = listNodes[j].type => i = j
  /\ \A k \in 1..Len(rcall) :
       /\ (rcall[k].op = "registerNode" /\ ~rcall[k].threw)
            => /\ Len(listNodes) = Len(rcall[k].before) + 1
               /\ SubSeq(listNodes, 1, Len(rcall[k].before)) = rcall[k].before
               /\ listNodes[Len(listNodes)].type = rcall[k].definition.type.s
               /\ listNodes[Len(listNodes)].label = rcall[k].definition.label.s
       /\ rcall[k].op = "unregisterNode"
            => LET Kept(entry) == entry.type # rcall[k].type
               IN  listNodes = SelectSeq(rcall[k].before, Kept)

\* a definition was registered into a registry that held two entries
C19_Witness ==
  /\ rcall # <<>>
  /\ rcall[1].op = "registerNode"
  /\ ~rcall[1].threw
  /\ Len(rcall[1].before) = 2
  /\ Len(listNodes) = 3

\* C20: unregisterNode removes the entry of the type when there is one and
\* changes nothing otherwise, raises no error, leaves every other entry as it
\* was, and a second call with the same type changes nothing.
C20_UnregisterIdempotent ==
  \A k \in 1..Len(rcall) :
    rcall[k].op = "unregisterNode"
      => LET before == rcall[k].before
             present == \E i \in 1..Len(before) : before[i].type = rcall[k].type
         IN  /\ ~rcall[k].threw
             /\ \A i \in 1..Len(registry) : registry[i].type # rcall[k].type
             /\ ~present => registry = before
             /\ present => Len(registry) = Len(before) - 1
             /\ \A i \in 1..Len(before) :
                  before[i].type # rcall[k].type
                    => \E j \in 1..Len(registry) : registry[j] = before[i]
             /\ unregisterNode(registry, rcall[k].type).nodes = registry
             /\ ~unregisterNode(registry, rcall[k].type).existed

\* unregisterNode was called for a type that a registry with entries does not
\* hold
C20_Witness ==
  /\ rcall # <<>>
  /\ rcall[1].op = "unregisterNode"
  /\ Len(rcall[1].before) > 0
  /\ \A i \in 1..Len(rcall[1].before) : rcall[1].before[i].type # rcall[1].type
  /\ registry = rcall[1].before

\* C21: getEdgePortType takes as index the integer that follows the last '-'
\* of the handle id and returns the tag at that index of the registered outputs
\* (source side) or inputs (target side) of the node's type; it returns null
\* exactly when the node is not found, the handle id is absent or is not
\* parsable, the type is not registered or the index is out of range.
WholeInt(s) ==
  CASE s = "0" -> 0
    [] s = "1" -> 1
    [] s = "2" -> 2
    [] OTHER -> NaN

TrailingIndex(handleId) ==
  IF Len(handleId) >= 2 THEN WholeInt(handleId[Len(handleId)]) ELSE NaN

PortByTrailingIndex(edge, ns, isSource) ==
  LET nodeId == IF isSource THEN edge.source ELSE edge.target
      handleId == IF isSource THEN edge.sourceHandle ELSE edge.targetHandle
      node == FindNode(ns, nodeId)
      nodeDef == IF node = <<>> THEN <<>> ELSE getNodeDef(node[1].type)
      index == TrailingIndex(handleId)
      portTypes == IF isSource THEN nodeDef[1].outputs ELSE nodeDef[1].inputs
  IN  IF node = <<>> \/ handleId = <<>> \/ index = NaN \/ nodeDef = <<>> THEN <<>>
      ELSE IF index + 1 \in 1..Len(portTypes) THEN <<portTypes[index + 1]>>
      ELSE <<>>

C21_TrailingIndexResolves ==
  pcall # <<>> =>
    pcall[1].result = PortByTrailingIndex(pcall[1].edge, nodes, pcall[1].isSource)

\* C22: in every reachable state of the graph the node ids are pairwise
\* distinct, whatever the sequence of creations (menu click, drop, image-file
\* drop, paste), also for creations made within one clock millisecond.
C22_NodeIdsDistinct ==
  \A i, j \in 1..Len(nodes) : i # j => nodes[i].id # nodes[j].id

ClickCreatesDropMatchesDrag ==
  /\ (last'.op = "click") =>
       (/\ Len(last'.created) = 1
        /\ last'.created[1].type = last'.nodeType
        /\ nodes' = nodes \o last'.created)
  /\ (last'.op = "drop" /\ last'.created # <<>>) =>
       (/\ drag # <<>>
        /\ last'.created[1].type = drag[1].type)

C26_ClickCreatesDropMatchesDrag == [][ClickCreatesDropMatchesDrag]_vars

\* C24: an error message shown after a failed import stays in the store for
\* its full auto-clear delay of five seconds and is then cleared, for any
\* sequence of failed imports: the message is cleared only when it has been
\* shown for the whole delay.
ClearedAfterFullDelay ==
  (error # <<>> /\ error' = <<>>) => clock = error[1].at + ClearDelay

C24_ErrorShownFullDelay == [][ClearedAfterFullDelay]_vars

\* the graph the store holds after the import of a document
GraphOf(flowData) ==
  [nodes |-> [i \in 1..Len(flowData.nodes.items) |-> ImportedNode(flowData.nodes.items[i])],
   edges |-> [i \in 1..Len(flowData.edges.items) |-> ImportedEdge(flowData.edges.items[i])]]

\* C27: when two imports of valid documents overlap, the graph after each
\* read completes is exactly the document of that read, so that the final
\* graph is the document whose read completed last, with nothing of the other.
LastReadWins ==
  (last'.op = "read" /\ last'.overlapsValid /\ HoldsValidDocument(last'.file)) =>
    [nodes |-> nodes', edges |-> edges'] = GraphOf(last'.file.content.value)

C27_LastReadWins == [][LastReadWins]_vars

\* C25: groups are never nested: after any sequence of groupings and drag
\* stops no node of type group has a parentNode, and handleGroup leaves the
\* graph as it is when a selected node is already inside a group.
GroupsNotNested ==
  /\ \A i \in 1..Len(nodes') : nodes'[i].type = NODE_TYPES.GROUP => ~HasParent(nodes'[i])
  /\ (last'.op = "group" /\ last'.nested) => (nodes' = nodes /\ edges' = edges)

C25_GroupsNotNested == [][GroupsNotNested]_vars

\* C28: in every reachable state the parentNode of a node, when set, is the
\* id of a group node that is in the graph.
C28_ParentIsPresentGroup ==
  \A i \in 1..Len(nodes) :
    HasParent(nodes[i]) =>
      \E j \in 1..Len(nodes) :
        nodes[j].id = nodes[i].parentNode /\ nodes[j].type = NODE_TYPES.GROUP

\* C29: every generator node has at most one generation request in flight:
\* handleGenerate starts none while isGenerating is true, and isGenerating is
\* false again whenever no request is in flight, however the request ended.
C29_OneGenerationInFlight ==
  \A n \in DOMAIN generators :
    /\ generators[n].requests <= 1
    /\ generators[n].isGenerating <=> generators[n].requests = 1

\* handleGenerate was called on a node that is generating, after an earlier
\* request of the node had failed, and started nothing
C29_Witness ==
  /\ last.op = "generate" /\ ~last.started
  /\ generators[last.node].isGenerating
  /\ Trim(generators[last.node].prompt) # ""
  /\ generators[last.node].error # <<>>

\* C30: _pollPrediction and _callApi return only a prediction whose status is
\* 'succeeded'; a failed or canceled prediction, a response that is not ok and
\* a wait beyond maxWaitTime end in a throw.
C30_OnlySucceededReturned ==
  /\ api.phase = "returned" => api.prediction[1].status = "succeeded"
  /\ api.phase \in {"fetching", "sleeping"} => api.now - api.startTime <= MaxWaitTime + MaxFetchTime

====
